---- MODULE Spec2Model ----
(***************************************************************************)
(* A model of the Toronto library calendar: the event normaliser           *)
(* (EventProcessor), the events routes (GET / and GET /new), the paged     *)
(* fetch loop of TorontoLibraryAPI, the branch name resolver               *)
(* (LocationProcessor) and the calendar grid of the browser client.        *)
(*                                                                         *)
(* Time is counted in whole hours since 1970-01-01T00:00Z: every zone      *)
(* offset the model uses is a whole number of hours, so an hour is the     *)
(* finest step at which a civil date can change.  A JavaScript Date is     *)
(* such an instant; Date.now() is the instant `now`.                       *)
(* Text is TLA+ strings; JavaScript null/undefined is the value Null.      *)
(*                                                                         *)
(* The operators on characters, strings, numbers, civil dates, zones,      *)
(* arrays and maps (Trim, ToLowerCase, ParseInt, NewDate, LocalCivil,      *)
(* SetDate, SortDesc, ...) give the semantics of the JavaScript built-ins  *)
(* the program calls (ECMA-262 String, Number, Date, Array and Map, Intl   *)
(* with timeZone America/New_York, moment strict parsing); every other     *)
(* definition follows a function or handler of the repository.             *)
(***************************************************************************)
EXTENDS Integers, Sequences, FiniteSets, TLC

VARIABLES
    tz,          \* the local time zone of the process (server) or viewer (browser)
    now,         \* the wall clock: what new Date() / Date.now() returns
    normalized,  \* EventProcessor: [raw, calls], a raw record and the results of the
                 \* calls of normalizeEvent made on it so far
    data,        \* events routes: what the datastore API and the database hold
    resp,        \* events routes: the response of the last request
    pg,          \* paged fetch: the state of one getAll... call
    loc,         \* location resolver: the index built and the last lookup
    cal,         \* calendar: currentDate, the events and the rendered grid
    page,        \* browser page: the lists, caches and requests of the filters
                 \* and of the new-programs view
    limiter      \* contact rate limiter: the record of each client IP

vars == <<tz, now, normalized, data, resp, pg, loc, cal, page, limiter>>

Null == "<null>"

(***************************************************************************)
(* Strings, as JavaScript's String methods compute them.                   *)
(***************************************************************************)
Char(s, i) == SubSeq(s, i, i)

UpperChars == "ABCDEFGHIJKLMNOPQRSTUVWXYZ"
LowerChars == "abcdefghijklmnopqrstuvwxyz"
DigitChars == "0123456789"

\* 1-based position of the one-character string c in alphabet, 0 when absent
PosIn(c, alphabet) ==
    IF \E i \in 1..Len(alphabet) : Char(alphabet, i) = c
    THEN CHOOSE i \in 1..Len(alphabet) : Char(alphabet, i) = c
    ELSE 0

CharsOf(alphabet) == {Char(alphabet, i) : i \in 1..Len(alphabet)}
UpperSet == CharsOf(UpperChars)
LowerSet == CharsOf(LowerChars)
DigitSet == CharsOf(DigitChars)
\* the lower-case letter of each upper-case letter, the value of each digit
LowerOf  == [c \in UpperSet |-> Char(LowerChars, PosIn(c, UpperChars))]
DigitVal == [c \in DigitSet |-> PosIn(c, DigitChars) - 1]

IsDigit(c) == c \in DigitSet
IsSpace(c) == c = " "
\* \w of a regular expression: letters, digits, underscore
IsWordChar(c) == c \in UpperSet \/ c \in LowerSet \/ c \in DigitSet \/ c = "_"

LowerChar(c) == IF c \in UpperSet THEN LowerOf[c] ELSE c

RECURSIVE ToLowerCase(_)
ToLowerCase(s) ==
    IF s = "" THEN "" ELSE LowerChar(Char(s, 1)) \o ToLowerCase(SubSeq(s, 2, Len(s)))

RECURSIVE TrimStart(_)
TrimStart(s) ==
    IF s # "" /\ IsSpace(Char(s, 1)) THEN TrimStart(SubSeq(s, 2, Len(s))) ELSE s

RECURSIVE TrimEnd(_)
TrimEnd(s) ==
    IF s # "" /\ IsSpace(Char(s, Len(s))) THEN TrimEnd(SubSeq(s, 1, Len(s) - 1)) ELSE s

Trim(s) == TrimEnd(TrimStart(s))

\* s.replace(/\s+/g, rep)
RECURSIVE ReplaceSpaceRuns(_, _)
ReplaceSpaceRuns(s, rep) ==
    IF s = "" THEN ""
    ELSE IF IsSpace(Char(s, 1))
         THEN rep \o ReplaceSpaceRuns(TrimStart(s), rep)
         ELSE Char(s, 1) \o ReplaceSpaceRuns(SubSeq(s, 2, Len(s)), rep)

\* s.includes(sub)
Includes(s, sub) ==
    \E i \in 0..(Len(s) - Len(sub)) : SubSeq(s, i + 1, i + Len(sub)) = sub

\* 1-based position of the first occurrence of sub in s, 0 when there is none
IndexOf(s, sub) ==
    IF Includes(s, sub)
    THEN 1 + CHOOSE i \in 0..(Len(s) - Len(sub)) :
                 /\ SubSeq(s, i + 1, i + Len(sub)) = sub
                 /\ \A j \in 0..(i - 1) : SubSeq(s, j + 1, j + Len(sub)) # sub
    ELSE 0

\* String(n) of a natural number
RECURSIVE NatToStr(_)
NatToStr(n) ==
    IF n < 10 THEN Char(DigitChars, n + 1)
    ELSE NatToStr(n \div 10) \o Char(DigitChars, (n % 10) + 1)

\* String(n).padStart(2, '0')
PadStart2(s) == IF Len(s) < 2 THEN "0" \o s ELSE s
Pad2(n) == PadStart2(NatToStr(n))

AllDigits(s) == \A i \in 1..Len(s) : IsDigit(Char(s, i))

\* parseInt(s, 10) of a string of digits
RECURSIVE ParseInt(_)
ParseInt(s) ==
    IF s = "" THEN 0
    ELSE ParseInt(SubSeq(s, 1, Len(s) - 1)) * 10 + DigitVal[Char(s, Len(s))]

\* JavaScript truthiness of a string-or-null value
Truthy(v) == v # Null /\ v # ""

(***************************************************************************)
(* Dates, as the JavaScript Date object and Intl.DateTimeFormat compute    *)
(* them.                                                                   *)
(***************************************************************************)
HoursPerDay == 24

\* days from 1970-01-01 to the civil date (y, m, d), m in 1..12: the years
\* are counted from March (yy, with mp the month from March), in eras of 400
DaysFromEra(era, yoe, doy) ==
    era * 146097 + yoe * 365 + yoe \div 4 - yoe \div 100 + doy - 719468
DaysFromMarch(yy, mp, d) ==
    DaysFromEra(yy \div 400, yy % 400, (153 * mp + 2) \div 5 + d - 1)
DaysFromCivil(y, m, d) ==
    DaysFromMarch(IF m <= 2 THEN y - 1 ELSE y, (m + 9) % 12, d)

\* the civil date of a day number; the inverse of DaysFromCivil, by the day
\* of the era (doe), the year of the era (yoe), the day of the year from
\* March (doy) and the month from March (mp)
CivilOfMonth(y, mp, d) ==
    [y |-> IF mp < 10 THEN y ELSE y + 1, m |-> IF mp < 10 THEN mp + 3 ELSE mp - 9, d |-> d]
CivilOfMp(y, doy, mp) == CivilOfMonth(y, mp, doy - (153 * mp + 2) \div 5 + 1)
CivilOfDoy(y, doy) == CivilOfMp(y, doy, (5 * doy + 2) \div 153)
CivilOfYoe(era, doe, yoe) ==
    CivilOfDoy(yoe + era * 400, doe - (365 * yoe + yoe \div 4 - yoe \div 100))
CivilOfDoe(era, doe) ==
    CivilOfYoe(era, doe, (doe - doe \div 1460 + doe \div 36524 - doe \div 146096) \div 365)
CivilFromDays(z) == CivilOfDoe((z + 719468) \div 146097, (z + 719468) % 146097)

\* 0 = Sunday .. 6 = Saturday; 1970-01-01 was a Thursday
WeekdayOfDay(z) == (z + 4) % 7

\* the day number of the n-th Sunday of month m of year y
NthSundayFrom(first, n) == first + ((7 - WeekdayOfDay(first)) % 7) + 7 * (n - 1)
NthSunday(y, m, n) == NthSundayFrom(DaysFromCivil(y, m, 1), n)

\* America/New_York: UTC-5, and UTC-4 from the second Sunday of March 02:00 EST
\* to the first Sunday of November 02:00 EDT
EasternOffsetIn(y, t) ==
    IF NthSunday(y, 3, 2) * HoursPerDay + 7 <= t /\ t < NthSunday(y, 11, 1) * HoursPerDay + 6
    THEN -4 ELSE -5
EasternOffset(t) == EasternOffsetIn(CivilFromDays(t \div HoursPerDay).y, t)

\* a process whose TZ is America/New_York (or America/Toronto); the other
\* zones are fixed offsets from UTC in hours
EasternZone == 100
FixedZones  == -12..14
LocalZones  == FixedZones \cup {EasternZone}

\* the offset of zone z at the instant t
OffsetAt(z, t) == IF z = EasternZone THEN EasternOffset(t) ELSE z

\* the instant of a local wall-clock reading (local hours since the epoch) in z
FromLocal(z, local) ==
    IF z = EasternZone THEN local - EasternOffset(local + 5) ELSE local - z

\* new Date(year, monthIndex, day [, hour]) in zone z; month and day overflow
\* as in MakeDay
NewDate(z, year, monthIndex, day, hour) ==
    LET y == year + monthIndex \div 12
        m == (monthIndex % 12) + 1
    IN  FromLocal(z, (DaysFromCivil(y, m, 1) + day - 1) * HoursPerDay + hour)

\* getFullYear() / getMonth() + 1 / getDate() of the instant t in zone z
LocalCivil(z, t) == CivilFromDays((t + OffsetAt(z, t)) \div HoursPerDay)

\* the year, month and day parts of Intl.DateTimeFormat with
\* timeZone: 'America/New_York'
EasternCivil(t) == LocalCivil(EasternZone, t)

DaysInMonth(y, m) ==
    IF m = 12 THEN 31 ELSE DaysFromCivil(y, m + 1, 1) - DaysFromCivil(y, m, 1)

\* a Date-valued field: null, a Date object (an instant) or a string
NoDate     == [k |-> "null", t |-> 0, s |-> ""]
DateObj(t) == [k |-> "date", t |-> t, s |-> ""]
DateStr(s) == [k |-> "str", t |-> 0, s |-> s]

(***************************************************************************)
(* EventProcessor                                                          *)
(***************************************************************************)
\* cleanText(text)
NullIfEmpty(c) == IF c = "" THEN Null ELSE c
cleanText(text) ==
    IF ~Truthy(text) THEN Null ELSE NullIfEmpty(ReplaceSpaceRuns(Trim(text), " "))

\* normalizeDateToEST(date): the Eastern civil date of the instant, as local
\* midnight of the process
LocalMidnight(z, c) == NewDate(z, c.y, c.m - 1, c.d, 0)
normalizeDateToEST(z, t) == LocalMidnight(z, EasternCivil(t))

\* /^(\d{4})-(\d{2})-(\d{2})$/
IsDateOnly(s) ==
    /\ Len(s) = 10
    /\ Char(s, 5) = "-" /\ Char(s, 8) = "-"
    /\ AllDigits(SubSeq(s, 1, 4)) /\ AllDigits(SubSeq(s, 6, 7)) /\ AllDigits(SubSeq(s, 9, 10))

\* the civil date written in a YYYY-MM-DD string
WrittenCivil(s) ==
    [y |-> ParseInt(SubSeq(s, 1, 4)), m |-> ParseInt(SubSeq(s, 6, 7)), d |-> ParseInt(SubSeq(s, 9, 10))]

ValidCivil(y, m, d) == m \in 1..12 /\ d >= 1 /\ d <= DaysInMonth(y, m)

\* dd/dd/dddd
IsSlashDate(s) ==
    /\ Len(s) = 10
    /\ Char(s, 3) = "/" /\ Char(s, 6) = "/"
    /\ AllDigits(SubSeq(s, 1, 2)) /\ AllDigits(SubSeq(s, 4, 5)) /\ AllDigits(SubSeq(s, 7, 10))

\* HH:mm:ss with valid fields
IsClock(s) ==
    /\ Len(s) = 8
    /\ Char(s, 3) = ":" /\ Char(s, 6) = ":"
    /\ AllDigits(SubSeq(s, 1, 2)) /\ AllDigits(SubSeq(s, 4, 5)) /\ AllDigits(SubSeq(s, 7, 8))
    /\ ParseInt(SubSeq(s, 1, 2)) < 24 /\ ParseInt(SubSeq(s, 4, 5)) < 60 /\ ParseInt(SubSeq(s, 7, 8)) < 60

\* the outcome of reading a date string: [ok, t], whether it is valid and the
\* instant it denotes
InvalidDate == [ok |-> FALSE, t |-> 0]

\* the instant of the civil date y-m-d at the hour h of zone z, when that
\* date exists
CivilInstant(z, y, m, d, h) ==
    IF ValidCivil(y, m, d) THEN [ok |-> TRUE, t |-> NewDate(z, y, m - 1, d, h)] ELSE InvalidDate

\* the number written in s[from..to]
Field(s, from, to) == ParseInt(SubSeq(s, from, to))

\* moment(cleanDate, format, true) for the formats of parseDate that the
\* inputs of this model exercise: "MDY" 'MM/DD/YYYY', "DMY" 'DD/MM/YYYY',
\* "T" 'YYYY-MM-DDTHH:mm:ss', "SP" 'YYYY-MM-DD HH:mm:ss'.  The result is
\* [ok, t]: whether the string is valid in the format, and the instant, read
\* in the local zone z.
MomentStrict(z, s, format) ==
    IF format \in {"MDY", "DMY"}
    THEN IF IsSlashDate(s)
         THEN CivilInstant(z, Field(s, 7, 10),
                           IF format = "MDY" THEN Field(s, 1, 2) ELSE Field(s, 4, 5),
                           IF format = "MDY" THEN Field(s, 4, 5) ELSE Field(s, 1, 2), 0)
         ELSE InvalidDate
    ELSE IF /\ format \in {"T", "SP"}
            /\ Len(s) = 19
            /\ IsDateOnly(SubSeq(s, 1, 10))
            /\ Char(s, 11) = (IF format = "T" THEN "T" ELSE " ")
            /\ IsClock(SubSeq(s, 12, 19))
    THEN CivilInstant(z, Field(s, 1, 4), Field(s, 6, 7), Field(s, 9, 10), Field(s, 12, 13))
    ELSE InvalidDate

\* the RangeError that formatToParts raises on an invalid Date
Raised == [k |-> "raised", t |-> 0, s |-> "RangeError"]

\* normalizeDateToEST applied without the test of isValid()
NormalizedOr_Unchecked(z, parsed, next) ==
    IF parsed.ok THEN DateObj(normalizeDateToEST(z, parsed.t)) ELSE Raised

\* if (parsed.isValid()) return this.normalizeDateToEST(parsed.toDate()),
\* else what the code tries next
NormalizedOr(z, parsed, next) ==
    IF parsed.ok THEN DateObj(normalizeDateToEST(z, parsed.t)) ELSE next

\* if (parsed.isValid()) return parsed.toDate(), else what the code tries next
DateOr(parsed, next) == IF parsed.ok THEN DateObj(parsed.t) ELSE next

\* moment(cleanDate): the ISO 8601 basic form YYYYMMDD is read as local
\* midnight of that date; the other strings of the model that no format
\* accepts are rejected, by moment and by the Date constructor after it
MomentFlexible(z, s) ==
    IF Len(s) = 8 /\ AllDigits(s)
    THEN CivilInstant(z, Field(s, 1, 4), Field(s, 5, 6), Field(s, 7, 8), 0)
    ELSE InvalidDate

\* cleanDate.includes('T') || cleanDate.includes(':')
HasTime(cleanDate) == Includes(cleanDate, "T") \/ Includes(cleanDate, ":")

\* if (flexibleParsed.isValid()): the date as it is when the string has a
\* time, its Eastern date otherwise; else what the code tries next
FlexibleOr(z, cleanDate, flexibleParsed, next) ==
    IF ~flexibleParsed.ok THEN next
    ELSE IF HasTime(cleanDate) THEN DateObj(flexibleParsed.t)
    ELSE DateObj(normalizeDateToEST(z, flexibleParsed.t))

\* parseDate from the trimmed string on
parseCleanDate(z, cleanDate) ==
    IF cleanDate = "" THEN NoDate
    ELSE IF IsDateOnly(cleanDate)
    THEN NormalizedOr(z, [ok |-> TRUE,
                          t |-> NewDate(z, Field(cleanDate, 1, 4), Field(cleanDate, 6, 7) - 1,
                                        Field(cleanDate, 9, 10), 0)], NoDate)
    ELSE NormalizedOr(z, MomentStrict(z, cleanDate, "MDY"),
         NormalizedOr(z, MomentStrict(z, cleanDate, "DMY"),
         DateOr(MomentStrict(z, cleanDate, "T"),
         DateOr(MomentStrict(z, cleanDate, "SP"),
         FlexibleOr(z, cleanDate, MomentFlexible(z, cleanDate), NoDate)))))

\* parseDate(dateStr) in a process whose local zone is z.  A value that is
\* not a string enters as the text String(dateStr) gives: the number 20240310
\* and the string "20240310" are both truthy and are read alike.
parseDate(z, dateStr) ==
    IF ~Truthy(dateStr) THEN NoDate ELSE parseCleanDate(z, Trim(dateStr))

\* [a, b, c].filter(Boolean)
FilterBoolean(seq) == SelectSeq(seq, Truthy)

\* array.join(sep)
RECURSIVE Join(_, _)
Join(seq, sep) ==
    IF seq = <<>> THEN ""
    ELSE IF Len(seq) = 1 THEN seq[1]
    ELSE seq[1] \o sep \o Join(Tail(seq), sep)

JoinComma(seq) == Join(seq, ", ")

\* the id of normalizeEvent: the first truthy id field, else a slug of the
\* title and Date.now()
EventIdOf(nowT, rawEvent) ==
    IF Truthy(rawEvent._id) THEN rawEvent._id
    ELSE IF Truthy(rawEvent.id) THEN rawEvent.id
    ELSE IF Truthy(rawEvent.event_id) THEN rawEvent.event_id
    ELSE "event_"
         \o (IF rawEvent.title = Null THEN "undefined"
             ELSE ToLowerCase(ReplaceSpaceRuns(rawEvent.title, "_")))
         \o "_" \o NatToStr(nowT)

\* normalizeEvent(rawEvent) at the instant nowT in a process of local zone z
normalizeEvent(z, nowT, rawEvent) ==
    LET categories == FilterBoolean(<<rawEvent.eventtype1, rawEvent.eventtype2, rawEvent.eventtype3>>)
        primaryCategory == IF categories # <<>> THEN categories[1] ELSE "General"
        ageGroups == FilterBoolean(<<rawEvent.agegroup1, rawEvent.agegroup2, rawEvent.agegroup3>>)
        primaryAgeGroup == IF ageGroups # <<>> THEN ageGroups[1] ELSE Null
    IN  [ eventId     |-> EventIdOf(nowT, rawEvent),
          title       |-> cleanText(IF Truthy(rawEvent.title) THEN rawEvent.title ELSE "Untitled Event"),
          startDate   |-> parseDate(z, rawEvent.startdate),
          endDate     |-> parseDate(z, rawEvent.enddate),
          description |-> cleanText(IF Truthy(rawEvent.description) THEN rawEvent.description ELSE ""),
          startTime   |-> cleanText(rawEvent.starttime),
          endTime     |-> cleanText(rawEvent.endtime),
          library     |-> cleanText(rawEvent.library),
          libraryAddress |-> cleanText(rawEvent.location),
          website     |-> cleanText(rawEvent.pagelink),
          category    |-> cleanText(primaryCategory),
          ageGroup    |-> cleanText(primaryAgeGroup),
          program     |-> cleanText(JoinComma(categories)),
          lastUpdated |-> DateObj(nowT),
          rawData     |-> rawEvent ]

(***************************************************************************)
(* Raw records of the events datastore                                     *)
(***************************************************************************)
Idle == "idle"

RawBase ==
    [ _id |-> Null, id |-> Null, event_id |-> Null,
      title |-> "Story  Time", description |-> " Songs and rhymes ",
      startdate |-> Null, enddate |-> Null, starttime |-> "10:30 AM", endtime |-> Null,
      library |-> "North York Central Library", location |-> "5120 Yonge St",
      eventtype1 |-> Null, eventtype2 |-> Null, eventtype3 |-> Null,
      agegroup1 |-> Null, agegroup2 |-> Null, agegroup3 |-> Null,
      pagelink |-> Null, lastupdated |-> Null, lastUpdated |-> Null ]

\* date-only strings, on and around the days the Eastern offset changes
DateOnlyInputs == {"2024-03-10", "2024-11-03", "2024-02-29", "2025-01-01", " 2024-07-15 "}
\* the other shapes a date field takes: other formats, a time of day, junk, nothing
OtherDateInputs ==
    {"03/09/2024", "25/12/2024", "2024-03-10T09:00:00", "2024-03-09 23:00:00", "20240310",
     "TBD", "", "  ", Null}
StartInputs == DateOnlyInputs \cup OtherDateInputs
EndInputs == {Null, "2024-03-11", "n/a"}

\* the id fields a record carries: none, _id, or event_id alone
IdInputs == {<<Null, Null>>, <<"17", Null>>, <<"", "e9">>}
\* the three numbered type slots
TypeInputs == {<<Null, Null, Null>>, <<"Book  Club", "", "Kids">>, <<"", " ", "Seniors">>}

\* records that differ in their ids and start dates, and records that differ
\* in their end dates and type slots
RawEvents ==
    { [RawBase EXCEPT !._id = i[1], !.event_id = i[2], !.startdate = sd] :
        i \in IdInputs, sd \in StartInputs }
    \cup
    { [RawBase EXCEPT !.startdate = "2024-03-10", !.enddate = ed,
                      !.eventtype1 = ty[1], !.eventtype2 = ty[2], !.eventtype3 = ty[3],
                      !.agegroup1 = ty[2], !.agegroup2 = ty[3]] :
        ed \in EndInputs, ty \in TypeInputs }

\* the instant the model starts at: 2024-03-10T12:00Z
NowBase == DaysFromCivil(2024, 3, 10) * HoursPerDay + 12
MaxTicks == 2
MaxCalls == 2

(***************************************************************************)
(* EventProcessor: a process normalises a raw record, possibly again later *)
(***************************************************************************)
InitEP ==
    /\ tz \in LocalZones
    /\ now = NowBase
    /\ normalized \in {[raw |-> r, calls |-> <<>>] : r \in RawEvents}
    /\ data = Idle /\ resp = Idle /\ pg = Idle /\ loc = Idle /\ cal = Idle
    /\ page = Idle /\ limiter = Idle

\* the clock advances
Tick ==
    /\ now < NowBase + MaxTicks
    /\ now' = now + 1
    /\ UNCHANGED <<tz, normalized, data, resp, pg, loc, cal, page, limiter>>

\* processor.normalizeEvent(raw)
Normalize ==
    /\ Len(normalized.calls) < MaxCalls
    /\ normalized' = [normalized EXCEPT !.calls = Append(@, normalizeEvent(tz, now, normalized.raw))]
    /\ UNCHANGED <<tz, now, data, resp, pg, loc, cal, page, limiter>>

NextEP == Tick \/ Normalize

SpecEP == InitEP /\ [][NextEP]_vars

\* C1: parseDate of a date-only string D yields a date whose year, month and
\* day, read in the process's local zone, are those written in D, whatever
\* that zone is.
C1_ParseDateKeepsWrittenDate ==
    \A i \in 1..Len(normalized.calls) :
        LET D == normalized.raw.startdate
        IN  (Truthy(D) /\ IsDateOnly(Trim(D))) =>
                /\ normalized.calls[i].startDate.k = "date"
                /\ LocalCivil(tz, normalized.calls[i].startDate.t) = WrittenCivil(Trim(D))

\* C3: two calls of normalizeEvent on the identical record return the same
\* eventId, the same category and the same startDate and endDate.
C3_NormalizeDeterministic ==
    \A i, j \in 1..Len(normalized.calls) :
        /\ normalized.calls[i].eventId = normalized.calls[j].eventId
        /\ normalized.calls[i].category = normalized.calls[j].category
        /\ normalized.calls[i].startDate = normalized.calls[j].startDate
        /\ normalized.calls[i].endDate = normalized.calls[j].endDate

(***************************************************************************)
(* The events routes: GET / and GET /new                                   *)
(***************************************************************************)
\* Date.UTC(year, monthIndex, day, 0, 0, 0, 0)
DateUTC(year, monthIndex, day) == NewDate(0, year, monthIndex, day, 0)

\* YYYY-MM-DD of a civil date
CivilString(c) == NatToStr(c.y) \o "-" \o Pad2(c.m) \o "-" \o Pad2(c.d)

\* date.toISOString()
ToISOString(t) ==
    CivilString(LocalCivil(0, t)) \o "T" \o Pad2(t % HoursPerDay) \o ":00:00.000Z"

\* `${year}-${String(month).padStart(2, '0')}-${String(day).padStart(2, '0')}`
\* of the local year, month and day of a Date
LocalDateString(z, t) == CivilString(LocalCivil(z, t))

\* a date field of a response: a Date object becomes its local date string,
\* anything else is kept
SerializeDate(z, v) == IF v.k = "date" THEN DateStr(LocalDateString(z, v.t)) ELSE v

\* the first of two readings that is valid
OrElse(parsed, next) == IF parsed.ok THEN parsed ELSE next

\* new Date(string): [ok, t].  A date-only ISO string is UTC midnight; a date
\* and time without zone is local time; a trailing Z is UTC.
JsDateParse(z, s) ==
    IF IsDateOnly(s)
    THEN CivilInstant(0, Field(s, 1, 4), Field(s, 6, 7), Field(s, 9, 10), 0)
    ELSE IF Len(s) = 20 /\ Char(s, 20) = "Z"
    THEN MomentStrict(0, SubSeq(s, 1, 19), "T")
    ELSE OrElse(MomentStrict(z, s, "T"), MomentStrict(z, s, "SP"))

\* the last-modified value of an event: rawData.lastupdated ||
\* rawData.lastUpdated, else the event's own lastUpdated
LastUpdatedValue(event) ==
    IF Truthy(event.rawData.lastupdated) THEN DateStr(event.rawData.lastupdated)
    ELSE IF Truthy(event.rawData.lastUpdated) THEN DateStr(event.rawData.lastUpdated)
    ELSE event.lastUpdated

\* the instant of a last-modified value: new Date(value), [ok, t]
ToInstant(z, v) ==
    CASE v.k = "date" -> [ok |-> TRUE, t |-> v.t]
      [] v.k = "str"  -> JsDateParse(z, v.s)
      [] OTHER        -> [ok |-> FALSE, t |-> 0]

\* new Date(Date.UTC(d.getUTCFullYear(), d.getUTCMonth(), d.getUTCDate() - back))
UtcDayOf(c, back) == DateUTC(c.y, c.m - 1, c.d - back)
UtcMidnight(t, back) == UtcDayOf(LocalCivil(0, t), back)

\* the threshold of GET /new
ThresholdDate(nowT, daysNum) == UtcMidnight(nowT, daysNum)

\* the comparison with > in place of >=
IsWithinRange_Strict(lastUpdated, thresholdDate) == UtcMidnight(lastUpdated, 0) > thresholdDate

\* lastUpdatedUTC >= thresholdDate
IsWithinRange(lastUpdated, thresholdDate) == UtcMidnight(lastUpdated, 0) >= thresholdDate

\* !isNaN(lastUpdated.getTime()) && isWithinRange
ValidAndWithin(parsed, thresholdDate) == parsed.ok /\ IsWithinRange(parsed.t, thresholdDate)

\* the filter of the database path, v the last-modified value of the event
DbKeeps(z, thresholdDate, v) == v.k # "null" /\ ValidAndWithin(ToInstant(z, v), thresholdDate)

DbFilter(z, thresholdDate, event) == DbKeeps(z, thresholdDate, LastUpdatedValue(event))

\* the filter of the API path, v the last-modified value of the event
ApiKeeps(z, nowT, daysNum, thresholdDate, event, v) ==
    IF v.k # "null"
    THEN ValidAndWithin(ToInstant(z, v), thresholdDate)
    ELSE IF event.startDate.k # "null"
    THEN \* daysDiff <= daysNum || daysDiff < 0
         nowT - event.startDate.t <= daysNum * HoursPerDay
    ELSE FALSE

ApiFilter(z, nowT, daysNum, thresholdDate, event) ==
    ApiKeeps(z, nowT, daysNum, thresholdDate, event, LastUpdatedValue(event))

\* the date the sort of the database path compares by
DbSortKey(z, v) == IF v.k # "null" THEN ToInstant(z, v).t ELSE 0

DbSortDate(z, event) == DbSortKey(z, LastUpdatedValue(event))

\* the sort of the API path comparing by the startDate before the
\* last-modified value
ApiSortKey_StartDate(z, event, v) ==
    IF event.startDate.k # "null" THEN event.startDate.t
    ELSE IF v.k # "null" THEN ToInstant(z, v).t ELSE 0

\* the date the sort of the API path compares by
ApiSortKey(z, event, v) ==
    IF v.k # "null" THEN ToInstant(z, v).t
    ELSE IF event.startDate.k # "null" THEN event.startDate.t ELSE 0

ApiSortDate(z, event) == ApiSortKey(z, event, LastUpdatedValue(event))

\* events.sort((a, b) => bDate - aDate) on a sequence of [key, ev], key the
\* date compared by: a stable sort, most recent first
RECURSIVE InsertDesc(_, _)
InsertDesc(sorted, x) ==
    IF sorted = <<>> THEN <<x>>
    ELSE IF Head(sorted).key >= x.key
         THEN <<Head(sorted)>> \o InsertDesc(Tail(sorted), x)
         ELSE <<x>> \o sorted

RECURSIVE SortDesc(_)
SortDesc(seq) ==
    IF seq = <<>> THEN <<>>
    ELSE InsertDesc(SortDesc(SubSeq(seq, 1, Len(seq) - 1)), seq[Len(seq)])

\* array.map(f)
MapSeq(seq, F(_)) == [i \in 1..Len(seq) |-> F(seq[i])]

\* parseInt(s, 10): the number its leading digits spell, NaN when there are none
NaN == -1
RECURSIVE DigitPrefix(_)
DigitPrefix(s) ==
    IF s # "" /\ IsDigit(Char(s, 1)) THEN Char(s, 1) \o DigitPrefix(SubSeq(s, 2, Len(s))) ELSE ""
NumberOfPrefix(p) == IF p = "" THEN NaN ELSE ParseInt(p)
JsParseInt(s) == NumberOfPrefix(DigitPrefix(TrimStart(s)))

\* the event filter of GET /: search, library, category and ageGroup
MatchesQuery(q, event) ==
    LET searchableText ==
            ToLowerCase(Join(FilterBoolean(<<event.title, event.description, event.library, event.category>>), " "))
        Wanted(param, field) ==
            (Truthy(param) /\ Trim(param) # "") =>
                (Truthy(field) /\ Includes(ToLowerCase(field), ToLowerCase(param)))
    IN  /\ (Truthy(q.search) /\ Trim(q.search) # "") => Includes(searchableText, ToLowerCase(q.search))
        /\ Wanted(q.library, event.library)
        /\ Wanted(q.category, event.category)
        /\ Wanted(q.ageGroup, event.ageGroup)

\* the serialisation without its endDate branch
SerializeEventDates_StartOnly(z, event) ==
    [event EXCEPT !.startDate = SerializeDate(z, event.startDate)]

\* the startDate and endDate of a response event
SerializeEventDates(z, event) ==
    [event EXCEPT !.startDate = SerializeDate(z, event.startDate),
                  !.endDate = SerializeDate(z, event.endDate)]

\* the lastUpdated and lastupdated of a response event of GET /new: the
\* last-modified value as a string, when there is one
WithLastUpdated(event, out) ==
    [f \in DOMAIN event \cup {"lastupdated"} |->
        IF f \in {"lastUpdated", "lastupdated"} THEN out ELSE event[f]]
FormatLastUpdated(event, v) ==
    IF v.k = "null" THEN event
    ELSE WithLastUpdated(event, IF v.k = "date" THEN DateStr(ToISOString(v.t)) ELSE v)
SerializeLastUpdated(event) == FormatLastUpdated(event, LastUpdatedValue(event))

\* a response: what res.json sends, `at`, the instant the handler read, and
\* `asked`, the days parameter of the request it answers
NoResponse == [route |-> "", status |-> 0, success |-> FALSE, events |-> <<>>,
               source |-> "", days |-> 0, thresholdDate |-> "", at |-> 0,
               asked |-> Null]

\* GET / in a process of local zone z at the instant nowT, d the data
\* sources, q the query
GetEventsResponse(z, nowT, d, q) ==
    IF ~d.configured
    THEN [NoResponse EXCEPT !.route = "/", !.status = 200, !.at = nowT]
    ELSE IF ~d.api.ok
    THEN [NoResponse EXCEPT !.route = "/", !.status = 500, !.at = nowT]
    ELSE LET Proc(r) == normalizeEvent(z, nowT, r)
             processedEvents == MapSeq(d.api.records, Proc)
             Keep(e) == MatchesQuery(q, e)
             filteredEvents == SelectSeq(processedEvents, Keep)
             Ser(e) == SerializeEventDates(z, e)
         IN  [NoResponse EXCEPT !.route = "/", !.status = 200, !.success = TRUE,
                                !.events = MapSeq(filteredEvents, Ser),
                                !.source = "fresh_api_filtered", !.at = nowT]

ValidDays == {1, 4, 7, 14, 21, 28}
DefaultDays == 28

\* the events of the database path of GET /new and whether the path set the
\* source: [events, done]
NewFromDatabase(z, d, thresholdDate) ==
    IF d.db.state # "ok" THEN [events |-> <<>>, done |-> FALSE]
    ELSE LET Keep(e) == DbFilter(z, thresholdDate, e)
             Keyed(e) == [key |-> DbSortDate(z, e), ev |-> e]
             Ev(p)    == p.ev
         IN  [events |-> MapSeq(SortDesc(MapSeq(SelectSeq(d.db.docs, Keep), Keyed)), Ev),
              done |-> TRUE]

\* the events of the API fallback of GET /new
NewFromApi(z, nowT, d, daysNum, thresholdDate) ==
    LET Proc(r)  == normalizeEvent(z, nowT, r)
        Keep(e)  == ApiFilter(z, nowT, daysNum, thresholdDate, e)
        Keyed(e) == [key |-> ApiSortDate(z, e), ev |-> e]
        Ev(p)    == p.ev
    IN  MapSeq(SortDesc(MapSeq(SelectSeq(MapSeq(d.api.records, Proc), Keep), Keyed)), Ev)

\* res.json of GET /new: the events with their dates normalised
NewSuccess(z, nowT, daysNum, thresholdDate, events, source) ==
    [NoResponse EXCEPT !.route = "/new", !.status = 200, !.success = TRUE,
                       !.events = MapSeq(events, LAMBDA e : SerializeLastUpdated(SerializeEventDates(z, e))),
                       !.source = source, !.days = daysNum,
                       !.thresholdDate = ToISOString(thresholdDate), !.at = nowT]

\* GET /new after the database path, fromDb what that path left: the API
\* fallback runs when the list is empty and the services are loaded, and a
\* failure of it is logged and leaves list and source as they were
NewAfterDatabase(z, nowT, d, daysNum, thresholdDate, fromDb) ==
    IF fromDb.events = <<>> /\ d.configured /\ d.api.ok
    THEN NewSuccess(z, nowT, daysNum, thresholdDate,
                    NewFromApi(z, nowT, d, daysNum, thresholdDate), "api")
    ELSE NewSuccess(z, nowT, daysNum, thresholdDate, fromDb.events,
                    IF fromDb.done THEN "database" ELSE "unknown")

\* GET /new for a parsed days parameter
NewForDays(z, nowT, d, daysNum) ==
    IF daysNum \notin ValidDays
    THEN [NoResponse EXCEPT !.route = "/new", !.status = 400, !.at = nowT]
    ELSE NewAfterDatabase(z, nowT, d, daysNum, ThresholdDate(nowT, daysNum),
                          NewFromDatabase(z, d, ThresholdDate(nowT, daysNum)))

\* GET /new with the query parameter days (Null when absent)
GetNewResponse(z, nowT, d, days) ==
    NewForDays(z, nowT, d, IF days = Null THEN DefaultDays ELSE JsParseInt(days))

\* the records the datastore API serves, in feed order.  Their last-modified
\* strings lie around the threshold of a 7 day window on 2024-03-10: 8, 7 and
\* 6 days before it in UTC, one without zone, one unparseable, one absent.
ApiFeed ==
    << [RawBase EXCEPT !._id = "11", !.startdate = "2024-03-10", !.enddate = "2024-03-11",
                       !.lastupdated = "2024-03-02T23:00:00Z"],
       [RawBase EXCEPT !._id = "12", !.startdate = "2024-11-03", !.eventtype1 = "Book Club",
                       !.lastupdated = "2024-03-03T00:00:00Z"],
       [RawBase EXCEPT !._id = "13", !.startdate = "2024-03-10T09:00:00",
                       !.lastUpdated = "2024-03-04T12:00:00Z"],
       [RawBase EXCEPT !._id = "14", !.startdate = "TBD", !.enddate = "2024-03-12"],
       [RawBase EXCEPT !.startdate = "03/09/2024", !.lastupdated = "n/a"],
       [RawBase EXCEPT !._id = "16", !.startdate = "2024-02-29",
                       !.lastupdated = "2024-03-02 23:00:00"] >>

\* a document of the LibraryEvent collection (schema: startDate, endDate and
\* lastUpdated are Dates or null): the normalised fields of a raw record as an
\* earlier ingestion stored them
StoredEvent(raw, category, start, end, updated) ==
    [ eventId     |-> raw._id,
      title       |-> "Story Time",
      startDate   |-> start,
      endDate     |-> end,
      description |-> "Songs and rhymes",
      startTime   |-> "10:30 AM",
      endTime     |-> Null,
      library     |-> "North York Central Library",
      libraryAddress |-> "5120 Yonge St",
      website     |-> Null,
      category    |-> IF category = Null THEN "General" ELSE category,
      ageGroup    |-> Null,
      program     |-> category,
      lastUpdated |-> updated,
      rawData     |-> raw ]

\* the collection: records of the feed ingested 30 days earlier by a server
\* on UTC, and two documents with and without a last-modified value
DbIngestTime == NowBase - 30 * HoursPerDay
DbCollection ==
    << StoredEvent(ApiFeed[3], Null, DateObj(NowBase - 3), NoDate, DateObj(DbIngestTime)),
       StoredEvent(ApiFeed[1], Null, DateObj(NowBase - 36), DateObj(NowBase - 12),
                   DateObj(DbIngestTime)),
       StoredEvent([RawBase EXCEPT !._id = "18"], Null, DateObj(NowBase + 36), NoDate, NoDate),
       StoredEvent(ApiFeed[2], "Book Club", DateObj(DaysFromCivil(2024, 11, 2) * HoursPerDay),
                   NoDate, DateObj(DbIngestTime)),
       StoredEvent([RawBase EXCEPT !._id = "19"], Null, NoDate, NoDate,
                   DateObj(NowBase - 7 * HoursPerDay - 13)) >>

Reverse(seq) == [i \in 1..Len(seq) |-> seq[Len(seq) + 1 - i]]

\* the lists a source holds: nothing, one of its records, all of them in
\* either order
ListsOf(all) == {<<>>, all, Reverse(all)} \cup {<<all[i]>> : i \in 1..Len(all)}

ApiDown == [ok |-> FALSE, records |-> <<>>]
ApiStates == {ApiDown} \cup {[ok |-> TRUE, records |-> rs] : rs \in ListsOf(ApiFeed)}
DbNone  == [state |-> "none", docs |-> <<>>]
DbError == [state |-> "error", docs |-> <<>>]
DbStates == {[state |-> "ok", docs |-> ds] : ds \in ListsOf(DbCollection)}

\* the services that loaded (events.js:7-20), what the API serves and what
\* the database holds
DataStates ==
    {[configured |-> FALSE, api |-> ApiDown, db |-> DbNone]}
    \cup {[configured |-> TRUE, api |-> a, db |-> b] :
            a \in ApiStates, b \in {DbNone, DbError, [state |-> "ok", docs |-> <<>>]}}
    \cup {[configured |-> TRUE, api |-> a, db |-> b] :
            a \in {ApiDown, [ok |-> TRUE, records |-> ApiFeed]}, b \in DbStates}

\* the zones the server runs in: the ends of the range, zones on both sides
\* of Eastern time, and Eastern time itself
ServerZones == {-12, -8, -5, -4, 0, 14, EasternZone}
\* the instants requests arrive at: 2024-03-10 at 00:00Z, 12:00Z and 23:00Z
NowInputs == {NowBase - 12, NowBase, NowBase + 11}

Queries ==
    { [search |-> Null, library |-> Null, category |-> Null, ageGroup |-> Null],
      [search |-> "story", library |-> "north york", category |-> Null, ageGroup |-> ""],
      [search |-> " ", library |-> Null, category |-> "book", ageGroup |-> Null] }

DaysInputs == {Null, "1", "4", "7", "14", "21", "28", "5", "abc", "7abc"}

InitRoutes ==
    /\ data \in DataStates
    /\ tz \in ServerZones
    /\ now \in NowInputs
    /\ resp = NoResponse
    /\ normalized = Idle /\ pg = Idle /\ loc = Idle /\ cal = Idle
    /\ page = Idle /\ limiter = Idle

\* router.get('/'): a request is handled once the previous response was taken
GetEvents ==
    /\ resp = NoResponse
    /\ \E q \in Queries : resp' = GetEventsResponse(tz, now, data, q)
    /\ UNCHANGED <<tz, now, normalized, data, pg, loc, cal, page, limiter>>

\* router.get('/new')
GetNew ==
    /\ resp = NoResponse
    /\ \E days \in DaysInputs :
           resp' = [GetNewResponse(tz, now, data, days) EXCEPT !.asked = days]
    /\ UNCHANGED <<tz, now, normalized, data, pg, loc, cal, page, limiter>>

\* the client takes the response
Receive ==
    /\ resp # NoResponse
    /\ resp' = NoResponse
    /\ UNCHANGED <<tz, now, normalized, data, pg, loc, cal, page, limiter>>

NextRoutes == GetEvents \/ GetNew \/ Receive

SpecRoutes == InitRoutes /\ [][NextRoutes]_vars

\* C2: the startDate string of every event of a GET / response, parsed again
\* with parseDate and serialised again as the route does, gives the same
\* string, in a process of every local zone.
C2_RoundTrip ==
    (resp.route = "/" /\ resp.success) =>
        \A i \in DOMAIN resp.events : \A z \in ServerZones :
            resp.events[i].startDate.k = "str" =>
                SerializeDate(z, parseDate(z, resp.events[i].startDate.s))
                    = resp.events[i].startDate

\* C6: the threshold of a GET /new response is UTC midnight of the UTC date
\* of now minus days, and an event whose last-modified value is a valid
\* instant is in the response iff the UTC day of that instant is not before
\* the UTC day of now minus days, on the database path and on the API path.
C6_RecencyFilter ==
    (resp.route = "/new" /\ resp.success) =>
        /\ resp.thresholdDate
              = ToISOString((resp.at \div HoursPerDay - resp.days) * HoursPerDay)
        /\ resp.source = "database" =>
              \A i \in DOMAIN data.db.docs :
                  ToInstant(tz, LastUpdatedValue(data.db.docs[i])).ok =>
                      ((\E j \in DOMAIN resp.events :
                            resp.events[j].rawData = data.db.docs[i].rawData)
                       <=> ToInstant(tz, LastUpdatedValue(data.db.docs[i])).t \div HoursPerDay
                             >= resp.at \div HoursPerDay - resp.days)
        /\ resp.source = "api" =>
              \A i \in DOMAIN data.api.records :
                  ToInstant(tz, LastUpdatedValue([rawData |-> data.api.records[i],
                                                  lastUpdated |-> DateObj(resp.at)])).ok =>
                      ((\E j \in DOMAIN resp.events :
                            resp.events[j].rawData = data.api.records[i])
                       <=> ToInstant(tz, LastUpdatedValue([rawData |-> data.api.records[i],
                                                           lastUpdated |-> DateObj(resp.at)])).t
                                \div HoursPerDay
                             >= resp.at \div HoursPerDay - resp.days)

\* a 7 day window late in the UTC day over the whole collection: the
\* documents modified 7 and 6 days before are listed, those modified 8 days
\* before are not
C6_Witness ==
    /\ resp.route = "/new" /\ resp.source = "database" /\ resp.days = 7
    /\ resp.at = NowBase + 11
    /\ {resp.events[j].eventId : j \in DOMAIN resp.events} = {"12", "13"}
    /\ {data.db.docs[i].eventId : i \in DOMAIN data.db.docs} = {"11", "12", "13", "18", "19"}

\* C10: in every successful response of GET / and GET /new the startDate and
\* the endDate of each event are null or a YYYY-MM-DD string.
C10_DatesAreDateOnly ==
    resp.success =>
        \A i \in DOMAIN resp.events :
            \A v \in {resp.events[i].startDate, resp.events[i].endDate} :
                v.k = "null" \/ (v.k = "str" /\ IsDateOnly(v.s))

\* a GET /new response from the database that lists a document with both dates
C10_Witness ==
    /\ resp.route = "/new" /\ resp.success /\ resp.source = "database"
    /\ \E i \in DOMAIN resp.events :
           resp.events[i].startDate.k = "str" /\ resp.events[i].endDate.k = "str"

(***************************************************************************)
(* LocationProcessor                                                       *)
(***************************************************************************)
\* s without the n characters from position i on; s itself when i = 0
CutAt(s, i, n) ==
    IF i = 0 THEN s ELSE SubSeq(s, 1, i - 1) \o SubSeq(s, i + n, Len(s))

\* s.replace(/pat/i, ''): the first occurrence, whatever its case
ReplaceFirstCI(s, pat) == CutAt(s, IndexOf(ToLowerCase(s), pat), Len(pat))

\* whether w is written at position i of s, in any case
StartsWithCI(s, i, w) ==
    i + Len(w) - 1 <= Len(s) /\ ToLowerCase(SubSeq(s, i, i + Len(w) - 1)) = w

\* \b between the positions i - 1 and i of s
Boundary(s, i) ==
    (i > 1 /\ IsWordChar(Char(s, i - 1))) # (i <= Len(s) /\ IsWordChar(Char(s, i)))

\* the alternatives of /\b(library|branch|public|tpl)\b/gi, in their order
StopWords == <<"library", "branch", "public", "tpl">>

WordAt(s, i, w) == StartsWithCI(s, i, w) /\ Boundary(s, i) /\ Boundary(s, i + Len(w))

\* the length of the match of the pattern at position i, 0 when none
MatchLenAt(s, i) ==
    IF \E k \in DOMAIN StopWords : WordAt(s, i, StopWords[k])
    THEN Len(StopWords[CHOOSE k \in DOMAIN StopWords :
                          /\ WordAt(s, i, StopWords[k])
                          /\ \A j \in 1..(k - 1) : ~WordAt(s, i, StopWords[j])])
    ELSE 0

\* s.replace(/\b(library|branch|public|tpl)\b/gi, '') from position i on
RECURSIVE RemoveWordsFrom(_, _)
RemoveWordsFrom(s, i) ==
    IF i > Len(s) THEN ""
    ELSE IF MatchLenAt(s, i) > 0 THEN RemoveWordsFrom(s, i + MatchLenAt(s, i))
    ELSE Char(s, i) \o RemoveWordsFrom(s, i + 1)

RemoveWords(s) == RemoveWordsFrom(s, 1)

\* the first position from i on that holds no white space
RECURSIVE SkipSpaces(_, _)
SkipSpaces(s, i) ==
    IF i <= Len(s) /\ IsSpace(Char(s, i)) THEN SkipSpaces(s, i + 1) ELSE i

\* whether /\s+library/i matches at position i
SpacesLibraryAt(s, i) == IsSpace(Char(s, i)) /\ StartsWithCI(s, SkipSpaces(s, i), "library")

\* s.replace(/\s+library.*$/i, ''): s up to the leftmost match
CutSpacesLibrary(s) ==
    IF \E i \in 1..Len(s) : SpacesLibraryAt(s, i)
    THEN SubSeq(s, 1, (CHOOSE i \in 1..Len(s) :
                          /\ SpacesLibraryAt(s, i)
                          /\ \A j \in 1..(i - 1) : ~SpacesLibraryAt(s, j)) - 1)
    ELSE s

\* parseFloat(coord), a number being written as its decimal string: NaN
\* (here Null) unless the string starts with a number
ParseFloat(s) ==
    IF \/ (Len(s) > 0 /\ IsDigit(Char(s, 1)))
       \/ (Len(s) > 1 /\ Char(s, 1) = "-" /\ IsDigit(Char(s, 2)))
    THEN s ELSE Null

\* parseCoordinate(coord)
parseCoordinate(coord) == IF ~Truthy(coord) THEN Null ELSE ParseFloat(coord)

\* truthiness of a number or null: neither null nor zero
NumberTruthy(num) ==
    num # Null /\ \E i \in 1..Len(num) : IsDigit(Char(num, i)) /\ Char(num, i) # "0"

\* rawLocation._id || rawLocation.id
FirstTruthy(a, b) == IF Truthy(a) THEN a ELSE b

\* normalizeLocation(rawLocation)
normalizeLocation(rawLocation) ==
    [ id             |-> FirstTruthy(rawLocation._id, rawLocation.id),
      name           |-> cleanText(rawLocation.BranchName),
      address        |-> cleanText(rawLocation.Address),
      postalCode     |-> cleanText(rawLocation.PostalCode),
      latitude       |-> parseCoordinate(rawLocation.Lat),
      longitude      |-> parseCoordinate(rawLocation.Long),
      phone          |-> cleanText(rawLocation.Telephone),
      website        |-> cleanText(rawLocation.Website),
      branchCode     |-> cleanText(rawLocation.BranchCode),
      physicalBranch |-> rawLocation.PhysicalBranch,
      serviceTier    |-> cleanText(rawLocation.ServiceTier),
      rawData        |-> rawLocation ]

\* the lookup keys of a branch name
KeysOf(name) ==
    << name,
       ToLowerCase(name),
       Trim(ReplaceFirstCI(name, "library")),
       Trim(ReplaceFirstCI(name, "branch")),
       Trim(ReplaceFirstCI(name, "public library")),
       Trim(ReplaceFirstCI(name, "tpl")),
       Trim(RemoveWords(name)) >>

\* locationData of a normalized location
LocationData(norm) ==
    [ lat |-> norm.latitude, lng |-> norm.longitude,
      address |-> norm.address, phone |-> norm.phone,
      website |-> norm.website, branchCode |-> norm.branchCode,
      serviceTier |-> norm.serviceTier ]

\* the lookup object: its entries [key, locationData] in the order the keys were
\* first set, which is the order of Object.keys
HasKey(lookup, key) == \E i \in DOMAIN lookup : lookup[i].key = key

\* lookup[key] of a key the object holds
Get(lookup, key) == lookup[CHOOSE i \in DOMAIN lookup : lookup[i].key = key].data

\* lookup[key] = locationData
Put(lookup, key, locationData) ==
    IF HasKey(lookup, key)
    THEN [i \in DOMAIN lookup |->
             IF lookup[i].key = key THEN [key |-> key, data |-> locationData] ELSE lookup[i]]
    ELSE Append(lookup, [key |-> key, data |-> locationData])

\* keys.forEach(key => { if (key && key.length > 1) lookup[key] = locationData })
RECURSIVE PutKeys(_, _, _, _)
PutKeys(lookup, keys, k, locationData) ==
    IF k > Len(keys) THEN lookup
    ELSE PutKeys(IF Len(keys[k]) > 1 THEN Put(lookup, keys[k], locationData) ELSE lookup,
                 keys, k + 1, locationData)

\* only physical branches with a name and valid coordinates
Eligible(norm) ==
    /\ norm.physicalBranch = 1
    /\ Truthy(norm.name)
    /\ NumberTruthy(norm.latitude)
    /\ NumberTruthy(norm.longitude)

\* the body of locations.forEach
AddLocation(lookup, norm) ==
    IF Eligible(norm)
    THEN PutKeys(lookup, KeysOf(norm.name), 1, LocationData(norm))
    ELSE lookup

RECURSIVE AddLocations(_, _, _)
AddLocations(lookup, locations, i) ==
    IF i > Len(locations) THEN lookup
    ELSE AddLocations(AddLocation(lookup, normalizeLocation(locations[i])), locations, i + 1)

\* createLocationLookup(locations)
createLocationLookup(locations) == AddLocations(<<>>, locations, 1)

\* the searchTerms of a lower-cased name
SearchTerms(lowerName) ==
    << Trim(ReplaceFirstCI(lowerName, "library")),
       Trim(ReplaceFirstCI(lowerName, "branch")),
       Trim(ReplaceFirstCI(lowerName, "public")),
       Trim(CutSpacesLibrary(lowerName)),
       Trim(RemoveWords(lowerName)) >>

AbsDiff(a, b) == IF a >= b THEN a - b ELSE b - a

\* the partial matching without the test of similar lengths
FuzzyMatches_AnyLength(lowerKey, term) ==
    Includes(lowerKey, term) \/ Includes(term, lowerKey)

\* the predicate of the partial matching
FuzzyMatches(lowerKey, term) ==
    /\ Includes(lowerKey, term) \/ Includes(term, lowerKey)
    /\ AbsDiff(Len(lowerKey), Len(term)) <= 5

\* Object.keys(locationLookup).find(...): the position of the first key that
\* matches, 0 when none does
FirstFuzzy(lookup, term) ==
    IF \E i \in DOMAIN lookup : FuzzyMatches(ToLowerCase(lookup[i].key), term)
    THEN CHOOSE i \in DOMAIN lookup :
             /\ FuzzyMatches(ToLowerCase(lookup[i].key), term)
             /\ \A j \in 1..(i - 1) : ~FuzzyMatches(ToLowerCase(lookup[j].key), term)
    ELSE 0

\* what findLibraryCoordinates returns: null, or the locationData of an entry
NoData == [ lat |-> Null, lng |-> Null, address |-> Null, phone |-> Null,
            website |-> Null, branchCode |-> Null, serviceTier |-> Null ]
NotFound == [hit |-> FALSE, data |-> NoData]
Found(locationData) == [hit |-> TRUE, data |-> locationData]

\* how a lookup was answered: by the exact key, the lower-cased key, the exact
\* match of a search term or the partial matching ("fuzzy") of a term, with the
\* key that answered
NoMatch == [via |-> "none", key |-> "", term |-> ""]

\* for (const term of searchTerms)
RECURSIVE TermMatch(_, _, _)
TermMatch(lookup, terms, k) ==
    IF k > Len(terms) THEN NoMatch
    ELSE IF terms[k] # "" /\ HasKey(lookup, terms[k])
    THEN [via |-> "term", key |-> terms[k], term |-> terms[k]]
    ELSE IF FirstFuzzy(lookup, terms[k]) > 0
    THEN [via |-> "fuzzy", key |-> lookup[FirstFuzzy(lookup, terms[k])].key, term |-> terms[k]]
    ELSE TermMatch(lookup, terms, k + 1)

\* the match of findLibraryCoordinates(libraryName, locationLookup)
MatchOf(libraryName, lookup) ==
    IF ~Truthy(libraryName) THEN NoMatch
    ELSE IF HasKey(lookup, libraryName)
    THEN [via |-> "exact", key |-> libraryName, term |-> libraryName]
    ELSE IF HasKey(lookup, ToLowerCase(libraryName))
    THEN [via |-> "lower", key |-> ToLowerCase(libraryName), term |-> ToLowerCase(libraryName)]
    ELSE TermMatch(lookup, SearchTerms(ToLowerCase(libraryName)), 1)

\* return locationLookup[key], or null
ResultOfMatch(lookup, match) ==
    IF match.via = "none" THEN NotFound ELSE Found(Get(lookup, match.key))

\* findLibraryCoordinates(libraryName, locationLookup)
findLibraryCoordinates(libraryName, lookup) ==
    ResultOfMatch(lookup, MatchOf(libraryName, lookup))

\* raw location records of the branch dataset
LocationBase ==
    [ _id |-> Null, id |-> Null, BranchName |-> Null, Address |-> "5120 Yonge St",
      PostalCode |-> Null, Lat |-> "43.7615", Long |-> "-79.4111", Telephone |-> Null,
      Website |-> Null, BranchCode |-> Null, PhysicalBranch |-> 1, ServiceTier |-> Null ]

NorthYorkCentral ==
    [LocationBase EXCEPT !._id = "1", !.BranchName = "North York Central Library",
                         !.BranchCode = "NYCL"]
LocationPool ==
    { NorthYorkCentral,
      [LocationBase EXCEPT !._id = "2", !.BranchName = "North York Central Hub",
                           !.BranchCode = "NYCH", !.Lat = "43.7700"],
      [LocationBase EXCEPT !._id = "3", !.BranchName = " Long  Branch Library ",
                           !.BranchCode = "LB", !.Lat = "43.5900", !.Long = "-79.5300"],
      [LocationBase EXCEPT !._id = "4", !.BranchName = "Toronto Public Library TPL",
                           !.BranchCode = "TPL", !.PhysicalBranch = 0],
      [LocationBase EXCEPT !._id = "5", !.BranchName = "Fairview Library",
                           !.BranchCode = "FV", !.Lat = "0", !.Long = "abc"],
      [LocationBase EXCEPT !._id = "6", !.BranchName = "A Library",
                           !.BranchCode = "A", !.Long = "-79.2000"],
      [LocationBase EXCEPT !._id = "7", !.BranchName = "Weston",
                           !.BranchCode = "WE", !.Lat = "43.7000"],
      [LocationBase EXCEPT !._id = "8", !.BranchName = "Old Weston TPL",
                           !.BranchCode = "OW", !.Lat = "43.6700"],
      [LocationBase EXCEPT !._id = "9", !.BranchName = "Weston Library",
                           !.BranchCode = "WL", !.Lat = "43.7100"] }

\* the record lists a fetch returns: up to MaxLocations records of the pool,
\* in any order
MaxLocations == 2
LocationLists ==
    UNION {{ls \in [1..n -> LocationPool] : \A i, j \in 1..n : i # j => ls[i] # ls[j]} :
              n \in 0..MaxLocations}

\* the library names looked up
NameInputs ==
    { Null, "", "north york central", "North York Central Branch",
      "North York Central Library", "NORTH YORK CENTRAL LIBRARY", "long branch",
      "Long Branch Branch", "a", "A Branch", "Toronto Public Library", "Fairview",
      "Weston TPL", "Library" }

NoLookup == [locations |-> <<>>, built |-> FALSE, lookup |-> <<>>, name |-> Null,
             match |-> NoMatch, found |-> NotFound]

InitLoc ==
    /\ loc \in {[NoLookup EXCEPT !.locations = ls] : ls \in LocationLists}
    /\ tz = 0 /\ now = NowBase
    /\ normalized = Idle /\ data = Idle /\ resp = Idle /\ pg = Idle /\ cal = Idle
    /\ page = Idle /\ limiter = Idle

\* createLocationLookup on the fetched records
CreateLookup ==
    /\ ~loc.built
    /\ loc' = [loc EXCEPT !.built = TRUE, !.lookup = createLocationLookup(loc.locations)]
    /\ UNCHANGED <<tz, now, normalized, data, resp, pg, cal, page, limiter>>

\* findLibraryCoordinates on the lookup
FindCoordinates ==
    /\ loc.built
    /\ \E name \in NameInputs :
           loc' = [loc EXCEPT !.name = name,
                              !.match = MatchOf(name, loc.lookup),
                              !.found = findLibraryCoordinates(name, loc.lookup)]
    /\ UNCHANGED <<tz, now, normalized, data, resp, pg, cal, page, limiter>>

NextLoc == CreateLookup \/ FindCoordinates

SpecLoc == InitLoc /\ [][NextLoc]_vars

\* C4: when the records the lookup was built from hold an eligible branch
\* named "N Library", findLibraryCoordinates returns the data of that branch
\* for N in lower case and for "N Branch".
C4_ResolvesSuffixVariants ==
    \A i \in DOMAIN loc.locations :
        LET norm == normalizeLocation(loc.locations[i])
            N    == SubSeq(norm.name, 1, Len(norm.name) - 8)
        IN  (/\ loc.built
             /\ Eligible(norm)
             /\ Len(norm.name) > 8
             /\ SubSeq(norm.name, Len(norm.name) - 7, Len(norm.name)) = " Library"
             /\ loc.name \in {ToLowerCase(N), N \o " Branch"})
            => loc.found = Found(LocationData(norm))

(***************************************************************************)
(* The calendar of the page: currentDate and renderCalendar                *)
(***************************************************************************)
\* the date of now in the zone of the browser, as local midnight
getDateInEST_Local(z, nowT) == LocalMidnight(z, LocalCivil(z, nowT))

\* getDateInEST(): the Eastern civil date of now, as local midnight
getDateInEST(z, nowT) == LocalMidnight(z, EasternCivil(nowT))

DayNumber(c) == DaysFromCivil(c.y, c.m, c.d)

\* getDayOfWeekInEST(date): the weekday of the Eastern civil date of the instant
getDayOfWeekInEST(t) == WeekdayOfDay(DayNumber(EasternCivil(t)))

\* getFullYear(), getMonth(), getDate() and getHours() of a Date in zone z
GetFullYear(z, t) == LocalCivil(z, t).y
GetMonth(z, t) == LocalCivil(z, t).m - 1
GetDate(z, t) == LocalCivil(z, t).d
GetHours(z, t) == (t + OffsetAt(z, t)) % HoursPerDay

\* date.setDate(d) and date.setMonth(monthIndex): the local fields of the
\* Date with one of them replaced
WithDate(z, c, d, h) == NewDate(z, c.y, c.m - 1, d, h)
SetDate(z, t, d) == WithDate(z, LocalCivil(z, t), d, GetHours(z, t))
WithMonth(z, c, monthIndex, h) == NewDate(z, c.y, monthIndex, c.d, h)
SetMonth(z, t, monthIndex) == WithMonth(z, LocalCivil(z, t), monthIndex, GetHours(z, t))

\* Math.ceil(a / b) for b > 0
CeilDiv(a, b) == -((-a) \div b)

\* new Date(year, month, 1) and new Date(year, month + 1, 0)
FirstDayEST(z, year, month) == NewDate(z, year, month, 1, 0)
LastDayEST(z, year, month) == NewDate(z, year, month + 1, 0, 0)

\* the start date with the weekday added instead of subtracted
StartDate_Forward(z, firstDayEST) ==
    SetDate(z, firstDayEST, GetDate(z, firstDayEST) + getDayOfWeekInEST(firstDayEST))

\* the Sunday of the week of the first day and the Saturday of the week of
\* the last day, the weekdays being read in Eastern time
StartDate(z, firstDayEST) ==
    SetDate(z, firstDayEST, GetDate(z, firstDayEST) - getDayOfWeekInEST(firstDayEST))
EndDate(z, lastDayEST) ==
    SetDate(z, lastDayEST, GetDate(z, lastDayEST) + (6 - getDayOfWeekInEST(lastDayEST)))

\* Math.ceil((endDate - startDate) / (1000 * 60 * 60 * 24)) + 1
TotalDays(startDate, endDate) == CeilDiv(endDate - startDate, HoursPerDay) + 1
WeeksNeeded(totalDays) == CeilDiv(totalDays, 7)

\* eventDate of an event of the page: a date-only string is local midnight of
\* the written date, any other string is new Date(string)
EventDate(z, startDate) ==
    IF IsDateOnly(startDate)
    THEN NewDate(z, Field(startDate, 1, 4), Field(startDate, 6, 7) - 1, Field(startDate, 9, 10), 0)
    ELSE JsDateParse(z, startDate).t

\* whether the Eastern civil date c of an event lies in the visible range
InVisibleRange(z, c, startDate, endDate) ==
    /\ LocalMidnight(z, c) >= LocalMidnight(z, LocalCivil(z, startDate))
    /\ LocalMidnight(z, c) <= LocalMidnight(z, LocalCivil(z, endDate))

\* the dateKey an event is collected under, Null when it is not collected
KeyOfCivil(z, c, startDate, endDate) ==
    IF InVisibleRange(z, c, startDate, endDate) THEN CivilString(c) ELSE Null
EventKey(z, event, startDate, endDate) ==
    IF ~Truthy(event.startDate) THEN Null
    ELSE KeyOfCivil(z, EasternCivil(EventDate(z, event.startDate)), startDate, endDate)

\* the dateKey of every event, in the order of eventsData
EventKeys(z, events, startDate, endDate) ==
    [i \in DOMAIN events |-> EventKey(z, events[i], startDate, endDate)]

\* the positions i..Len(keys) that hold dateKey, in order
RECURSIVE PositionsOf(_, _, _)
PositionsOf(keys, dateKey, i) ==
    IF i > Len(keys) THEN <<>>
    ELSE (IF keys[i] = dateKey THEN <<i>> ELSE <<>>) \o PositionsOf(keys, dateKey, i + 1)

\* visibleEvents.get(dateKey) || [], as positions in eventsData
VisibleEvents(keys, dateKey) == PositionsOf(keys, dateKey, 1)

\* window.innerWidth > 768 ? 3 : 2
MaxVisible_AtLeast(innerWidth) == IF innerWidth >= 768 THEN 3 ELSE 2
MaxVisible(innerWidth) == IF innerWidth > 768 THEN 3 ELSE 2

\* the first n elements of seq: seq.slice(0, n)
Slice(seq, n) == SubSeq(seq, 1, IF Len(seq) < n THEN Len(seq) ELSE n)

\* the ids of the events at the positions
EventIds(events, positions) == [i \in DOMAIN positions |-> events[positions[i]].eventId]

\* a day cell: its local date, the classes other-month and today, the events
\* of the day, the tiles shown and the count of the "+n more" tile
DayCell(c, isCurrentMonth, today, dayEvents, maxVisible) ==
    [ year |-> c.y, month |-> c.m - 1, day |-> c.d,
      otherMonth |-> ~isCurrentMonth, today |-> today,
      events |-> dayEvents,
      tiles |-> Slice(dayEvents, maxVisible),
      more |-> IF Len(dayEvents) > maxVisible THEN Len(dayEvents) - maxVisible ELSE 0 ]

\* the cell of the local civil date c; events are shown only in cells of the
\* current month
CellOfCivil(year, month, events, innerWidth, keys, todayCivil, c) ==
    DayCell(c, c.m - 1 = month /\ c.y = year, c = todayCivil,
            IF c.m - 1 = month /\ c.y = year
            THEN EventIds(events, VisibleEvents(keys, CivilString(c)))
            ELSE <<>>,
            MaxVisible(innerWidth))

\* the i-th cell (from 0): cellDate.setDate(startDate.getDate() + i)
CellAt(z, year, month, events, innerWidth, startDate, keys, todayCivil, i) ==
    CellOfCivil(year, month, events, innerWidth, keys, todayCivil,
                LocalCivil(z, SetDate(z, startDate, GetDate(z, startDate) + i)))

\* the grid between startDate and endDate, keys the dateKeys of the events
\* and todayCivil the date of getDateInEST()
GridOfKeys(z, year, month, events, innerWidth, startDate, endDate, keys, todayCivil) ==
    [ year |-> year, month |-> month, startDate |-> startDate, endDate |-> endDate,
      cells |-> [i \in 1..(WeeksNeeded(TotalDays(startDate, endDate)) * 7) |->
                    CellAt(z, year, month, events, innerWidth, startDate, keys, todayCivil, i - 1)] ]

GridOfRange(z, nowT, year, month, events, innerWidth, startDate, endDate) ==
    GridOfKeys(z, year, month, events, innerWidth, startDate, endDate,
               EventKeys(z, events, startDate, endDate),
               LocalCivil(z, getDateInEST(z, nowT)))

GridOfMonth(z, nowT, year, month, events, innerWidth) ==
    GridOfRange(z, nowT, year, month, events, innerWidth,
                StartDate(z, FirstDayEST(z, year, month)),
                EndDate(z, LastDayEST(z, year, month)))

\* renderCalendar() at the instant nowT in a browser of local zone z
renderCalendar(z, nowT, currentDate, events, innerWidth) ==
    GridOfMonth(z, nowT, GetFullYear(z, currentDate), GetMonth(z, currentDate), events, innerWidth)

\* the events of the page (filteredEvents), as the events route serialises
\* them: four on one day, one on the leap day, one without a date, one with
\* a time of day
PageEvent(id, startDate) == [eventId |-> id, title |-> "Story Time", startDate |-> startDate]
PageEvents ==
    << PageEvent("21", "2024-02-14"), PageEvent("22", "2024-02-14"),
       PageEvent("23", "2024-02-29"), PageEvent("24", "2024-02-14"),
       PageEvent("25", Null), PageEvent("26", "2024-02-14"),
       PageEvent("27", "2024-03-10T03:00:00Z") >>

\* the zones of the browser
ViewerZones == {-8, -5, 0, 14, EasternZone}

\* the instants the page is loaded at: 2024-01-31 17:00Z, 2024-02-15 12:00Z,
\* 2024-03-01 02:00Z (still February 29 in Eastern time), 2024-11-03 12:00Z,
\* 2025-02-01 12:00Z
LoadInstants ==
    { DaysFromCivil(2024, 1, 31) * HoursPerDay + 17,
      DaysFromCivil(2024, 2, 15) * HoursPerDay + 12,
      DaysFromCivil(2024, 3, 1) * HoursPerDay + 2,
      DaysFromCivil(2024, 11, 3) * HoursPerDay + 12,
      DaysFromCivil(2025, 2, 1) * HoursPerDay + 12 }

\* the years the navigation of the model stays in
MinYear == 2024
MaxYear == 2025

\* window.innerWidth: the two widths around the breakpoint
ViewportWidths == {768, 769}

NoGrid == [year |-> 0, month |-> 0, startDate |-> 0, endDate |-> 0, cells |-> <<>>]

InitCal ==
    /\ tz \in ViewerZones
    /\ now \in LoadInstants
    /\ cal \in {[currentDate |-> getDateInEST(tz, now), events |-> evs, innerWidth |-> w,
                  grid |-> NoGrid] : evs \in {<<>>, PageEvents}, w \in ViewportWidths}
    /\ normalized = Idle /\ data = Idle /\ resp = Idle /\ pg = Idle /\ loc = Idle
    /\ page = Idle /\ limiter = Idle

\* currentDate becomes d and the calendar is rendered
ShowMonth(d) ==
    /\ cal' = [cal EXCEPT !.currentDate = d,
                           !.grid = renderCalendar(tz, now, d, cal.events, cal.innerWidth)]
    /\ UNCHANGED <<tz, now, normalized, data, resp, pg, loc, page, limiter>>

\* the calendar is rendered once the events are loaded
RenderCalendar == ShowMonth(cal.currentDate)

\* click on #prevMonth
PrevMonth ==
    /\ GetFullYear(tz, SetMonth(tz, cal.currentDate, GetMonth(tz, cal.currentDate) - 1)) >= MinYear
    /\ ShowMonth(SetMonth(tz, cal.currentDate, GetMonth(tz, cal.currentDate) - 1))

\* click on #nextMonth
NextMonth ==
    /\ GetFullYear(tz, SetMonth(tz, cal.currentDate, GetMonth(tz, cal.currentDate) + 1)) <= MaxYear
    /\ ShowMonth(SetMonth(tz, cal.currentDate, GetMonth(tz, cal.currentDate) + 1))

\* click on #todayBtn
Today == ShowMonth(getDateInEST(tz, now))

NextCal == RenderCalendar \/ PrevMonth \/ NextMonth \/ Today

SpecCal == InitCal /\ [][NextCal]_vars

\* C5: the grid of renderCalendar has a multiple of 7 day cells, and its
\* cells that are not other-month are the days 1..n of the target month,
\* each once, n the number of days of that month.
C5_GridShape ==
    cal.grid # NoGrid =>
        /\ Len(cal.grid.cells) % 7 = 0
        /\ Cardinality({i \in DOMAIN cal.grid.cells : ~cal.grid.cells[i].otherMonth})
             = DaysInMonth(cal.grid.year, cal.grid.month + 1)
        /\ {cal.grid.cells[i].day : i \in {j \in DOMAIN cal.grid.cells :
                                               ~cal.grid.cells[j].otherMonth}}
             = 1..DaysInMonth(cal.grid.year, cal.grid.month + 1)

\* February 2024 rendered in a browser on UTC: 29 cells of the month
C5_Witness ==
    /\ cal.grid # NoGrid /\ tz = 0
    /\ cal.grid.year = 2024 /\ cal.grid.month = 1
    /\ Len(cal.grid.cells) = 35
    /\ Cardinality({i \in DOMAIN cal.grid.cells : ~cal.grid.cells[i].otherMonth}) = 29

\* ---------------------------------------------------------------------------
\* TorontoLibraryAPI: the paged fetches getAllLibraryEvents and
\* getAllLibraryLocations.  A page of records is modelled by its offset and the
\* number of its records.

batchSize == 1000

\* the offset after which the loop breaks: offset > 10000, offset > 5000
HardCap(fn) == IF fn = "getAllLibraryLocations" THEN 5000 ELSE 10000

\* hasMore = batchResult.records.length === batchSize
hasMore(n) == n = batchSize

\* hasMore that holds for every page that is not empty
Continues_NonEmpty(fn, n, offset) == n > 0 /\ ~(offset > HardCap(fn))

\* the while loop goes round again: hasMore, and no break on offset
Continues(fn, n, offset) == hasMore(n) /\ ~(offset > HardCap(fn))

\* allEvents.length
RECURSIVE TotalOf(_)
TotalOf(pages) ==
    IF pages = <<>> THEN 0 ELSE pages[1].n + TotalOf(Tail(pages))

\* the requests the loop issues after a page: getDatastoreResourceBatch at the
\* new offset when the loop goes round again
LoopRequests_Ahead(offset, more) ==
    IF more THEN <<offset, offset + batchSize>> ELSE <<>>
LoopRequests(offset, more) == IF more THEN <<offset>> ELSE <<>>

Range(seq) == {seq[i] : i \in DOMAIN seq}

NoResult == [records |-> <<>>, total |-> 0]

\* a call that has not been made
NoCall ==
    [ fn |-> Null, phase |-> "idle", offset |-> 0, requested |-> <<>>,
      inflight |-> {}, all |-> <<>>, failedAt |-> "none", failure |-> Null,
      result |-> NoResult ]

\* the functions with a paged loop
Fetchers == {"getAllLibraryEvents", "getAllLibraryLocations"}

\* the numbers of records a page can hold: none, some, batchSize
PageLengths == {0, 500, batchSize}

\* the failures of an https.get: an 'error' of the request (connection), an
\* 'error' of the response, a body JSON.parse or ["result"] cannot read
FailureKinds == {"connection error", "response error", "unparseable body"}

\* the calls in progress at once (one per HTTP request the routes serve)
MaxFetches == 2

InitPage ==
    /\ pg = [alive |-> TRUE, calls |-> [c \in 1..MaxFetches |-> NoCall]]
    /\ tz = Idle /\ now = Idle /\ normalized = Idle /\ data = Idle
    /\ resp = Idle /\ loc = Idle /\ cal = Idle
    /\ page = Idle /\ limiter = Idle

\* the promise of the call rejects: the catch block rethrows to the caller
Rejected(call, at, kind) ==
    [call EXCEPT !.phase = "threw", !.inflight = {}, !.failedAt = at, !.failure = kind]

\* the process exits under a call in progress: nothing of the call is left
Exited(call) ==
    IF call.phase \in {"package", "page"}
    THEN [NoCall EXCEPT !.fn = call.fn, !.phase = "crashed"]
    ELSE call

\* an 'error' of the request has no listener: it is thrown as an uncaught
\* exception and the process exits with every call in progress
ProcessExit(calls, c, at, kind) ==
    [ alive |-> FALSE,
      calls |-> [d \in DOMAIN calls |->
                    IF d = c
                    THEN [Exited(calls[d]) EXCEPT !.failedAt = at, !.failure = kind]
                    ELSE Exited(calls[d])] ]

\* a failed https.get of call c
Failed(c, at, kind) ==
    IF kind = "connection error"
    THEN ProcessExit(pg.calls, c, at, kind)
    ELSE [pg EXCEPT !.calls[c] = Rejected(pg.calls[c], at, kind)]

\* getDatastoreResourceBatch(resource, offset, batchSize) is called
Requesting(call, requests) ==
    [call EXCEPT !.phase = "page",
                 !.requested = call.requested \o requests,
                 !.inflight = call.inflight \cup Range(requests)]

\* the return of the call
Returned(call) ==
    [call EXCEPT !.phase = "returned",
                 !.result = [records |-> call.all, total |-> TotalOf(call.all)]]

\* the rest of the loop body after the page, and the loop condition
AfterBatch(call, requests) ==
    IF requests = <<>> THEN Returned(call) ELSE Requesting(call, requests)

\* the loop body once the batch of n records at offset o has arrived
BatchResult(call, o, n) ==
    AfterBatch([call EXCEPT !.all = Append(call.all, [offset |-> o, n |-> n]),
                            !.offset = call.offset + batchSize,
                            !.inflight = call.inflight \ {o}],
               LoopRequests(call.offset + batchSize,
                            Continues(call.fn, n, call.offset + batchSize)))

\* a route calls getAllLibraryEvents or getAllLibraryLocations: getPackage
StartFetch(c) ==
    /\ pg.alive /\ pg.calls[c].phase = "idle"
    /\ \E fn \in Fetchers :
          pg' = [pg EXCEPT !.calls[c] = [NoCall EXCEPT !.fn = fn, !.phase = "package"]]
    /\ UNCHANGED <<tz, now, normalized, data, resp, loc, cal, page, limiter>>

\* the package arrives: without a datastore resource the call throws, with
\* one the loop starts at offset 0
PackageArrives(c) ==
    /\ pg.calls[c].phase = "package"
    /\ \E resources \in BOOLEAN :
          pg' = [pg EXCEPT !.calls[c] =
                    IF resources
                    THEN Requesting(pg.calls[c], <<0>>)
                    ELSE Rejected(pg.calls[c], "package", "no datastore resources")]
    /\ UNCHANGED <<tz, now, normalized, data, resp, loc, cal, page, limiter>>

\* getPackage fails
PackageFails(c) ==
    /\ pg.calls[c].phase = "package"
    /\ \E kind \in FailureKinds : pg' = Failed(c, "package", kind)
    /\ UNCHANGED <<tz, now, normalized, data, resp, loc, cal, page, limiter>>

\* the response of a page request ends with a body of n records
PageArrives(c) ==
    /\ pg.calls[c].phase = "page"
    /\ \E o \in pg.calls[c].inflight : \E n \in PageLengths :
          pg' = [pg EXCEPT !.calls[c] = BatchResult(pg.calls[c], o, n)]
    /\ UNCHANGED <<tz, now, normalized, data, resp, loc, cal, page, limiter>>

\* a page request fails
PageFails(c) ==
    /\ pg.calls[c].phase = "page"
    /\ \E kind \in FailureKinds : pg' = Failed(c, "page", kind)
    /\ UNCHANGED <<tz, now, normalized, data, resp, loc, cal, page, limiter>>

\* the request of call c in flight completes
Responds(c) == PackageArrives(c) \/ PackageFails(c) \/ PageArrives(c) \/ PageFails(c)

NextPage == \E c \in 1..MaxFetches : StartFetch(c) \/ Responds(c)

SpecPage == InitPage /\ [][NextPage]_vars

\* every request in flight completes
FairSpecPage == SpecPage /\ \A c \in 1..MaxFetches : WF_vars(Responds(c))

\* the shape of one paged loop: offsets 0, batchSize, 2 * batchSize, ..., none
\* beyond the hard cap; a request follows only a full page; the call returns
\* exactly when a page is short or the next offset exceeds the hard cap
PagedLoopShape(call) ==
    /\ \A i \in DOMAIN call.requested :
          /\ call.requested[i] = (i - 1) * batchSize
          /\ call.requested[i] <= HardCap(call.fn)
    /\ \A i \in DOMAIN call.all :
          /\ call.all[i].offset = call.requested[i]
          /\ i < Len(call.requested) => call.all[i].n = batchSize
    /\ call.phase = "returned" =>
          /\ Len(call.all) = Len(call.requested)
          /\ call.result.records = call.all
          /\ \/ call.all[Len(call.all)].n < batchSize
             \/ Len(call.requested) * batchSize > HardCap(call.fn)
    /\ ( /\ call.failedAt = "none" /\ pg.alive /\ call.all # <<>>
         /\ Len(call.all) = Len(call.requested) ) => call.phase = "returned"

\* C7: each paged loop requests the offsets 0, batchSize, 2 * batchSize, ...
\* in this order, stops by returning after the first page shorter than
\* batchSize or once the next offset exceeds the hard cap, and, every request
\* completing, a call in progress always ends, whatever the pages hold.
C7_BoundedPaging ==
    /\ [](\A c \in 1..MaxFetches : PagedLoopShape(pg.calls[c]))
    /\ \A c \in 1..MaxFetches :
          (pg.calls[c].phase \in {"package", "page"})
              ~> (pg.calls[c].phase \in {"returned", "threw", "crashed"})

\* getAllLibraryEvents returns after eleven full pages, the offsets 0..10000
C7_Witness ==
    \E c \in 1..MaxFetches :
        /\ pg.calls[c].fn = "getAllLibraryEvents" /\ pg.calls[c].phase = "returned"
        /\ pg.calls[c].requested[Len(pg.calls[c].requested)] = 10000
        /\ pg.calls[c].result.total = 11 * batchSize

\* C8 (as written): at most one page request is in flight at any time
C8_OneInFlight ==
    \A c, d \in 1..MaxFetches :
        /\ Cardinality(pg.calls[c].inflight) <= 1
        /\ c # d => (pg.calls[c].inflight = {} \/ pg.calls[d].inflight = {})

\* C8 (amended): within one call of getAllLibraryEvents or
\* getAllLibraryLocations the request of page k+1 is issued only after the
\* page k has arrived, so each call has at most one page request in flight.
C8_OneInFlightPerCall ==
    \A c \in 1..MaxFetches :
        /\ Cardinality(pg.calls[c].inflight) <= 1
        /\ Len(pg.calls[c].requested) <= Len(pg.calls[c].all) + 1
        /\ pg.calls[c].inflight \subseteq
              {pg.calls[c].requested[i] : i \in {Len(pg.calls[c].requested)} \ {0}}

\* two calls each with a page request in flight, one of them past its first page
C8_Witness ==
    /\ pg.calls[1].inflight = {batchSize}
    /\ Len(pg.calls[1].all) = 1
    /\ pg.calls[2].inflight = {0}

\* C9: a failed page fetch, of any kind, ends the call with the error thrown
\* to its caller: no retry, no further page request, no result.
C9_FailureReachesCaller ==
    \A c \in 1..MaxFetches :
        pg.calls[c].failedAt = "page" =>
            /\ pg.calls[c].phase = "threw"
            /\ pg.calls[c].inflight = {}
            /\ Len(pg.calls[c].requested) = Len(pg.calls[c].all) + 1
            /\ pg.calls[c].result = NoResult

\* ---------------------------------------------------------------------------
\* The resolution order of findLibraryCoordinates as four strategies tried one
\* after the other: the first stripped variant with an exact match, then the
\* first stripped variant with a fuzzy match.
RECURSIVE ExactOfTerms(_, _, _)
ExactOfTerms(lookup, terms, k) ==
    IF k > Len(terms) THEN NotFound
    ELSE IF terms[k] # "" /\ HasKey(lookup, terms[k]) THEN Found(Get(lookup, terms[k]))
    ELSE ExactOfTerms(lookup, terms, k + 1)

RECURSIVE FuzzyOfTerms(_, _, _)
FuzzyOfTerms(lookup, terms, k) ==
    IF k > Len(terms) THEN NotFound
    ELSE IF FirstFuzzy(lookup, terms[k]) > 0
    THEN Found(lookup[FirstFuzzy(lookup, terms[k])].data)
    ELSE FuzzyOfTerms(lookup, terms, k + 1)

VariantsInOrder(lookup, terms) ==
    IF ExactOfTerms(lookup, terms, 1).hit
    THEN ExactOfTerms(lookup, terms, 1)
    ELSE FuzzyOfTerms(lookup, terms, 1)

StrategiesInOrder(libraryName, lookup) ==
    IF ~Truthy(libraryName) THEN NotFound
    ELSE IF HasKey(lookup, libraryName) THEN Found(Get(lookup, libraryName))
    ELSE IF HasKey(lookup, ToLowerCase(libraryName))
    THEN Found(Get(lookup, ToLowerCase(libraryName)))
    ELSE VariantsInOrder(lookup, SearchTerms(ToLowerCase(libraryName)))

\* C11: findLibraryCoordinates returns the result of the first strategy that
\* succeeds in the order exact key, lower-cased key, exact match of a stripped
\* variant, fuzzy scan (a fuzzy match only when no stripped variant has an
\* exact match), and null exactly when none succeeds.
C11_StrategyOrder ==
    loc.built => loc.found = StrategiesInOrder(loc.name, loc.lookup)

\* the position of a key in the insertion order of the index
PositionOfKey(lookup, key) == CHOOSE i \in DOMAIN lookup : lookup[i].key = key

\* one string contains the other and the lengths differ by at most 5
CloseContainment(k, t) ==
    /\ Includes(ToLowerCase(k), t) \/ Includes(t, ToLowerCase(k))
    /\ Len(k) - Len(t) <= 5 /\ Len(t) - Len(k) <= 5

\* C12: when findLibraryCoordinates answers through the fuzzy scan, the key k
\* and the term t are such that one contains the other (k lower-cased) with
\* lengths at most 5 apart, k is the first such key in insertion order, and
\* the data returned is that of k.
C12_FuzzyFirstInOrder ==
    loc.match.via = "fuzzy" =>
        /\ \E i \in DOMAIN loc.lookup : loc.lookup[i].key = loc.match.key
        /\ CloseContainment(loc.match.key, loc.match.term)
        /\ \A j \in 1..(PositionOfKey(loc.lookup, loc.match.key) - 1) :
              ~CloseContainment(loc.lookup[j].key, loc.match.term)
        /\ loc.found = Found(loc.lookup[PositionOfKey(loc.lookup, loc.match.key)].data)

\* a fuzzy answer by a key that is not the closest: a later key of the index
\* also fits the term, with a smaller difference of lengths
C12_Witness ==
    /\ loc.match.via = "fuzzy"
    /\ Len(loc.match.key) # Len(loc.match.term)
    /\ \E j \in DOMAIN loc.lookup :
          /\ j > PositionOfKey(loc.lookup, loc.match.key)
          /\ ToLowerCase(loc.lookup[j].key) = loc.match.term
          /\ loc.lookup[j].data # loc.found.data

\* the date of a cell as YYYY-MM-DD
CellDateString(cell) == CivilString([y |-> cell.year, m |-> cell.month + 1, d |-> cell.day])

\* C13: every cell of the grid, the leading and trailing days of other months
\* included, holds the events whose startDate is the date of the cell and no
\* other event with a date-only startDate, whatever the zone of the browser.
C13_CellsHoldEventsOfDay ==
    \A i \in DOMAIN cal.grid.cells : \A p \in DOMAIN cal.events :
        (cal.events[p].startDate # Null /\ IsDateOnly(cal.events[p].startDate)) =>
            ( (\E q \in DOMAIN cal.grid.cells[i].events :
                   cal.grid.cells[i].events[q] = cal.events[p].eventId)
              <=> cal.events[p].startDate = CellDateString(cal.grid.cells[i]) )

\* the cells of the grid marked today
TodayCells == {i \in DOMAIN cal.grid.cells : cal.grid.cells[i].today}

\* the cells of the grid whose date is the civil date c
CellsOfCivil(c) ==
    {i \in DOMAIN cal.grid.cells :
        /\ cal.grid.cells[i].year = c.y
        /\ cal.grid.cells[i].month + 1 = c.m
        /\ cal.grid.cells[i].day = c.d}

\* C14: a rendered grid marks at most one cell today; it marks one exactly
\* when the Eastern civil date of now is a date of the grid, and the cell
\* marked is the cell of that date.
C14_OneToday ==
    cal.grid # NoGrid =>
        /\ Cardinality(TodayCells) <= 1
        /\ Cardinality(CellsOfCivil(EasternCivil(now))) <= 1
        /\ TodayCells = CellsOfCivil(EasternCivil(now))

\* a browser on UTC at 2024-03-01 02:00Z shows February 2024 with the cell of
\* February 29, the Eastern date, marked today
C14_Witness ==
    /\ cal.grid # NoGrid /\ tz = 0
    /\ LocalCivil(tz, now) # EasternCivil(now)
    /\ cal.grid.year = 2024 /\ cal.grid.month = 1
    /\ \E i \in TodayCells : cal.grid.cells[i].day = 29 /\ ~cal.grid.cells[i].otherMonth

\* the position of the event with the id in the events of the page
PositionOfEvent(id) == CHOOSE p \in DOMAIN cal.events : cal.events[p].eventId = id

\* the display cap of the viewport
DisplayCap == IF cal.innerWidth > 768 THEN 3 ELSE 2

\* C15: a cell with n events shows the first min(n, c) of them, c the display
\* cap of the viewport (3 above 768, else 2), in the order of the events of
\* the page; its overflow is n - c when n > c and there is none otherwise; the
\* events of the day are kept whole.
C15_CapAndOverflow ==
    \A i \in DOMAIN cal.grid.cells :
        /\ \A q \in DOMAIN cal.grid.cells[i].events : \A r \in DOMAIN cal.grid.cells[i].events :
              q < r => PositionOfEvent(cal.grid.cells[i].events[q])
                          < PositionOfEvent(cal.grid.cells[i].events[r])
        /\ Len(cal.grid.cells[i].tiles) =
              (IF Len(cal.grid.cells[i].events) < DisplayCap
               THEN Len(cal.grid.cells[i].events) ELSE DisplayCap)
        /\ \A q \in DOMAIN cal.grid.cells[i].tiles :
              cal.grid.cells[i].tiles[q] = cal.grid.cells[i].events[q]
        /\ cal.grid.cells[i].more =
              (IF Len(cal.grid.cells[i].events) > DisplayCap
               THEN Len(cal.grid.cells[i].events) - DisplayCap ELSE 0)

\* a cell with four events at width 768: two tiles and "+2 more"
C15_Witness ==
    /\ cal.innerWidth = 768
    /\ \E i \in DOMAIN cal.grid.cells :
          /\ cal.grid.cells[i].events = <<"21", "22", "24", "26">>
          /\ cal.grid.cells[i].tiles = <<"21", "22">>
          /\ cal.grid.cells[i].more = 2


(***************************************************************************)
(* C16: the keys of a built location index                                 *)
(***************************************************************************)
\* a record flagged as physical branch whose coordinates parse to numbers
\* other than zero
BranchWithCoordinates(rawLocation) ==
    /\ rawLocation.PhysicalBranch = 1
    /\ NumberTruthy(parseCoordinate(rawLocation.Lat))
    /\ NumberTruthy(parseCoordinate(rawLocation.Long))

\* the name variants of length > 1 generated from a record
VariantsOfName(name) ==
    {KeysOf(name)[k] : k \in {j \in DOMAIN KeysOf(name) : Len(KeysOf(name)[j]) > 1}}
VariantsOf(rawLocation) == VariantsOfName(normalizeLocation(rawLocation).name)

\* every key is a variant of a branch with coordinates
KeysFromBranches ==
    \A e \in DOMAIN loc.lookup :
        \E i \in DOMAIN loc.locations :
            /\ BranchWithCoordinates(loc.locations[i])
            /\ loc.lookup[e].key \in VariantsOf(loc.locations[i])

\* all variants of one branch with coordinates are keys of one payload
VariantsShareAPayload ==
    \A i \in DOMAIN loc.locations :
        BranchWithCoordinates(loc.locations[i]) =>
            \A v, w \in VariantsOf(loc.locations[i]) :
                /\ HasKey(loc.lookup, v)
                /\ HasKey(loc.lookup, w)
                /\ Get(loc.lookup, v) = Get(loc.lookup, w)

\* C16: every key of a built index is a name variant of length > 1 of a record
\* flagged as physical branch with valid, non-zero coordinates, and all the
\* variants generated from one such record map to the same payload.
C16_KeysOfEligibleRecords ==
    loc.built => KeysFromBranches /\ VariantsShareAPayload

\* the keys alone: what holds of every built index
C16_KeysOnly == loc.built => KeysFromBranches


(***************************************************************************)
(* C17: the numbered type and age-group slots                              *)
(***************************************************************************)
\* a slot that is not blank: present, not empty and not only whitespace
NotBlank(slot) == Truthy(slot) /\ Trim(slot) # ""
Surviving(slots) == SelectSeq(slots, NotBlank)
TypeSlots(rawEvent) == <<rawEvent.eventtype1, rawEvent.eventtype2, rawEvent.eventtype3>>
AgeSlots(rawEvent) == <<rawEvent.agegroup1, rawEvent.agegroup2, rawEvent.agegroup3>>

\* the primary entry and the joined list, for the entries that survive
PrimaryIs(field, entries) == entries # <<>> => field = cleanText(entries[1])
ProgramIs(field, entries) == entries # <<>> => field = cleanText(JoinComma(entries))

\* C17: the blank slots (absent, empty or whitespace-only) being dropped and
\* the others kept in slot order, category is the first surviving type entry,
\* ageGroup the first surviving age-group entry and program the join of all
\* surviving type entries.
C17_SlotsCollected ==
    \A i \in 1..Len(normalized.calls) :
        /\ PrimaryIs(normalized.calls[i].category, Surviving(TypeSlots(normalized.raw)))
        /\ PrimaryIs(normalized.calls[i].ageGroup, Surviving(AgeSlots(normalized.raw)))
        /\ ProgramIs(normalized.calls[i].program, Surviving(TypeSlots(normalized.raw)))

\* the same for the records none of whose slots is whitespace-only
NoWhitespaceSlot(slots) == \A k \in DOMAIN slots : Truthy(slots[k]) => Trim(slots[k]) # ""
C17_WithoutWhitespaceSlots ==
    (NoWhitespaceSlot(TypeSlots(normalized.raw)) /\ NoWhitespaceSlot(AgeSlots(normalized.raw)))
        => C17_SlotsCollected


(***************************************************************************)
(* C18: date fields that hold no date                                      *)
(***************************************************************************)
\* a raw value that holds no date: absent, empty, whitespace, or text that
\* is no date
HoldsNoDate(raw) == raw \in {Null, "", "  ", "TBD", "n/a"}

\* what parseDate may return: null or a Date
DateOrNull(field) == field = NoDate \/ field = DateObj(field.t)

\* the field of a raw value that holds no date is null
NullWhenNoDate(raw, field) == HoldsNoDate(raw) => field = NoDate

\* C18: whatever the raw startdate and enddate are, normalizeEvent returns an
\* Event whose startDate and endDate are each a date or null, and the field of
\* a raw value that cannot be parsed is null.
C18_UnparseableDatesAreNull ==
    \A i \in 1..Len(normalized.calls) :
        /\ normalized.calls[i].rawData = normalized.raw
        /\ DateOrNull(normalized.calls[i].startDate)
        /\ DateOrNull(normalized.calls[i].endDate)
        /\ NullWhenNoDate(normalized.raw.startdate, normalized.calls[i].startDate)
        /\ NullWhenNoDate(normalized.raw.enddate, normalized.calls[i].endDate)

\* an Event was returned for a record whose startdate, or whose enddate, is
\* text that is no date
C18_Witness ==
    /\ Len(normalized.calls) = 2
    /\ \/ /\ normalized.raw.startdate = "TBD"
          /\ normalized.calls[2].startDate = NoDate
          /\ normalized.calls[2].title = "Story Time"
       \/ /\ normalized.raw.enddate = "n/a"
          /\ normalized.calls[2].endDate = NoDate
          /\ normalized.calls[2].startDate.k = "date"


(***************************************************************************)
(* C19: events without a last-modified value in GET /new                   *)
(***************************************************************************)
\* the record of the source carries a last-modified value
SourceNative(rawData) == Truthy(rawData.lastupdated) \/ Truthy(rawData.lastUpdated)

\* a document carries a last-modified value: that of its record, or the
\* lastUpdated stored with it
DocCarries(doc) == SourceNative(doc.rawData) \/ doc.lastUpdated.k # "null"

\* some event of the collection the response was computed from carries a
\* last-modified value
CollectionCarries ==
    IF resp.source = "api"
    THEN \E i \in DOMAIN data.api.records : SourceNative(data.api.records[i])
    ELSE \E i \in DOMAIN data.db.docs : DocCarries(data.db.docs[i])

\* the event of a response carries a last-modified value in the collection
EventCarries(event) ==
    IF resp.source = "api"
    THEN SourceNative(event.rawData)
    ELSE \E i \in DOMAIN data.db.docs :
             data.db.docs[i].rawData = event.rawData /\ DocCarries(data.db.docs[i])

\* C19: unless the whole collection lacks last-modified values, no event
\* without a last-modified value is in the response of GET /new: the rule of
\* the startDate admits no single event of a collection in which other events
\* carry one.
C19_NoLastModifiedExcluded ==
    (resp.route = "/new" /\ resp.success /\ CollectionCarries) =>
        \A j \in DOMAIN resp.events : EventCarries(resp.events[j])

\* the same on the database path alone
C19_DatabasePath ==
    (resp.route = "/new" /\ resp.success /\ resp.source = "database") =>
        \A j \in DOMAIN resp.events : EventCarries(resp.events[j])


(***************************************************************************)
(* C20: the order of the events of GET /new                                *)
(***************************************************************************)
\* the last-modified value of a response event: that of its record in the
\* collection, the normalised lastUpdated of the API path being the instant
\* of the request
DocOf(rawData) == data.db.docs[CHOOSE i \in DOMAIN data.db.docs : data.db.docs[i].rawData = rawData]
CollectionValue(event) ==
    IF resp.source = "api"
    THEN LastUpdatedValue([rawData |-> event.rawData, lastUpdated |-> DateObj(resp.at)])
    ELSE LastUpdatedValue(DocOf(event.rawData))
HasLastModified(event) == CollectionValue(event).k # "null"
LastModified(event) == ToInstant(tz, CollectionValue(event)).t

\* a is listed before b rightly
InOrder(a, b) ==
    /\ HasLastModified(b) => HasLastModified(a)
    /\ (HasLastModified(a) /\ HasLastModified(b)) => LastModified(a) >= LastModified(b)

\* C20: the events of a GET /new response are in descending order of their
\* last-modified value (rawData.lastupdated or rawData.lastUpdated, else the
\* normalised lastUpdated), and an event without one comes after every event
\* that has one.
C20_SortedByLastModified ==
    (resp.route = "/new" /\ resp.success) =>
        \A i, j \in DOMAIN resp.events : i < j => InOrder(resp.events[i], resp.events[j])

\* the collection held in ascending order is listed most recent first, and
\* the feed is listed with the event stamped at the request first
C20_Witness ==
    /\ resp.route = "/new" /\ resp.success /\ resp.days = 14
    /\ \/ /\ resp.source = "database"
          /\ data.db.docs = Reverse(DbCollection)
          /\ [j \in DOMAIN resp.events |-> resp.events[j].eventId] = <<"13", "12", "19", "11">>
       \/ /\ resp.source = "api"
          /\ data.api.records = ApiFeed
          /\ Len(resp.events) > 2
          /\ resp.events[1].eventId = "14"
          /\ LastModified(resp.events[2]) > LastModified(resp.events[3])


(***************************************************************************)
(* C23: the days parameter of GET /new                                     *)
(***************************************************************************)
\* the values of the parameter that are exactly one of the valid days
ExactDays == {"1", "4", "7", "14", "21", "28"}

\* the answer to an invalid parameter
Refused == resp.status = 400 /\ ~resp.success /\ resp.events = <<>>

\* C23: a GET /new request without the days parameter is handled with 28
\* days, one whose parameter is exactly 1, 4, 7, 14, 21 or 28 with that
\* number, and every other request is answered with status 400, success
\* false and no events.
C23_OnlyValidDays ==
    resp.route = "/new" =>
        IF resp.asked = Null THEN resp.status = 200 /\ resp.days = DefaultDays
        ELSE IF resp.asked \in ExactDays
        THEN resp.status = 200 /\ resp.days = ParseInt(resp.asked)
        ELSE Refused

\* the same, the parameter being read as parseInt reads it
C23_ParsedDays ==
    resp.route = "/new" =>
        IF resp.asked = Null THEN resp.status = 200 /\ resp.days = DefaultDays
        ELSE IF JsParseInt(resp.asked) \in ValidDays
        THEN resp.status = 200 /\ resp.days = JsParseInt(resp.asked)
        ELSE Refused


(***************************************************************************)
(* C24: GET /new when the events dataset is unreachable                    *)
(***************************************************************************)
\* the fetch of the events dataset fails and the database gives no result
DatasetUnreachable == data.configured /\ ~data.api.ok /\ data.db.state # "ok"

\* C24: a GET /new request with valid days, made when the events dataset is
\* unreachable and the database gives no result, is answered with an error:
\* success is false.
C24_UnreachableIsSurfaced ==
    (resp.route = "/new" /\ resp.status # 400 /\ DatasetUnreachable) => ~resp.success


(***************************************************************************)
(* C25: the weeks of the grid                                              *)
(***************************************************************************)
\* the day number of the civil date of a cell, and of a day of the month shown
CellDayNumber(cell) == DaysFromCivil(cell.year, cell.month + 1, cell.day)
MonthDayNumber(grid, d) == DaysFromCivil(grid.year, grid.month + 1, d)
LastOfMonth(grid) == MonthDayNumber(grid, DaysInMonth(grid.year, grid.month + 1))

\* the latest Sunday on or before a day, the earliest Saturday on or after it
SundayBefore(dayNumber) == dayNumber - WeekdayOfDay(dayNumber)
SaturdayAfter(dayNumber) == dayNumber + (6 - WeekdayOfDay(dayNumber))

\* the cells are consecutive civil dates
Consecutive(cells) ==
    \A i \in 1..(Len(cells) - 1) : CellDayNumber(cells[i + 1]) = CellDayNumber(cells[i]) + 1

WholeWeeks(grid) ==
    /\ CellDayNumber(grid.cells[1]) = SundayBefore(MonthDayNumber(grid, 1))
    /\ CellDayNumber(grid.cells[Len(grid.cells)]) = SaturdayAfter(LastOfMonth(grid))
    /\ Consecutive(grid.cells)

\* C25: in every viewer zone the first cell of the grid is the latest Sunday
\* on or before the 1st of the month shown, the last cell the earliest
\* Saturday on or after its last day, and the cells between are consecutive
\* civil dates.
C25_WholeWeeks == cal.grid # NoGrid => WholeWeeks(cal.grid)

\* the same in the zones of a fixed offset that are not east of Eastern time
C25_FixedWestern == (cal.grid # NoGrid /\ tz \in {-8, -5}) => WholeWeeks(cal.grid)


(***************************************************************************)
(* C27: month navigation                                                   *)
(***************************************************************************)
\* the month a Date shows, counted in months
MonthCount(t) == GetFullYear(tz, t) * 12 + GetMonth(tz, t)

\* what a click on #prevMonth and on #nextMonth make of a Date
AfterPrev(t) == SetMonth(tz, t, GetMonth(tz, t) - 1)
AfterNext(t) == SetMonth(tz, t, GetMonth(tz, t) + 1)

\* a click on #nextMonth shows the following month, and #prevMonth after it
\* the month it started from; likewise for #prevMonth
NextMovesOne ==
    /\ MonthCount(cal'.currentDate) = MonthCount(cal.currentDate) + 1
    /\ MonthCount(AfterPrev(cal'.currentDate)) = MonthCount(cal.currentDate)
PrevMovesOne ==
    /\ MonthCount(cal'.currentDate) = MonthCount(cal.currentDate) - 1
    /\ MonthCount(AfterNext(cal'.currentDate)) = MonthCount(cal.currentDate)

\* C27: from every month shown and every day of the month held in
\* currentDate, next-month shows the month that follows, prev-month the month
\* before, and next then prev, or prev then next, shows the first month again.
C27_OneMonthPerClick ==
    [][(NextMonth => NextMovesOne) /\ (PrevMonth => PrevMovesOne)]_vars

\* the same when currentDate holds a day of the month up to the 28th
C27_UpToThe28th ==
    [][GetDate(tz, cal.currentDate) <= 28
          => ((NextMonth => NextMovesOne) /\ (PrevMonth => PrevMovesOne))]_vars


(***************************************************************************)
(* C30: empty search terms                                                 *)
(***************************************************************************)
\* C30: a payload that findLibraryCoordinates returns through a search term
\* is justified by a term that is not empty: an empty term, as the name
\* 'Library' leaves, selects no key of the index.
C30_NoEmptyTermMatch ==
    (loc.found.hit /\ loc.match.via \in {"term", "fuzzy"}) => loc.match.term # ""

\* the same for the exact match of a term alone
C30_ExactTermNotEmpty ==
    (loc.found.hit /\ loc.match.via = "term") => loc.match.term # ""


(***************************************************************************)
(* The contact route: rateLimitMiddleware.  Here now is Date.now() in      *)
(* milliseconds, counted from the instant the server started.              *)
(***************************************************************************)
RATE_LIMIT_WINDOW == 15 * 60 * 1000
MAX_REQUESTS_PER_WINDOW == 3

\* the client IPs of the model, and the Map without an entry for an IP
ClientIps == {"10.0.0.1", "10.0.0.2"}
NoClientData == [firstRequest |-> 0, count |-> 0]

\* the clock of the server: it advances by a third of the window,
\* MaxClockSteps times
ClockStart == 0
ClockStep == RATE_LIMIT_WINDOW \div 3
MaxClockSteps == 5
MaxRequests == 5

\* now - data.firstRequest > RATE_LIMIT_WINDOW
Expired(nowMs, clientData) == nowMs - clientData.firstRequest > RATE_LIMIT_WINDOW

\* "Clean old entries": every expired entry is deleted
CleanOldEntries(rateLimitMap, nowMs) ==
    [ip \in ClientIps |->
        IF rateLimitMap[ip] # NoClientData /\ Expired(nowMs, rateLimitMap[ip])
        THEN NoClientData ELSE rateLimitMap[ip]]

\* the limit tested with > in place of >=
OverLimit_Above(clientData) == clientData.count > MAX_REQUESTS_PER_WINDOW

\* clientData.count >= MAX_REQUESTS_PER_WINDOW
OverLimit(clientData) == clientData.count >= MAX_REQUESTS_PER_WINDOW

\* the middleware after the cleaning, for the entry of the client: the entry
\* it leaves and whether next() is called
AfterCleaning(nowMs, clientData) ==
    IF clientData = NoClientData \/ Expired(nowMs, clientData)
    THEN [entry |-> [firstRequest |-> nowMs, count |-> 1], next |-> TRUE]
    ELSE IF OverLimit(clientData)
    THEN [entry |-> clientData, next |-> FALSE]
    ELSE [entry |-> [clientData EXCEPT !.count = @ + 1], next |-> TRUE]

\* rateLimitMiddleware(req, res, next) for a request of clientIp at nowMs:
\* the Map it leaves and whether next() is called
rateLimitMiddleware(rateLimitMap, clientIp, nowMs) ==
    [ map  |-> [CleanOldEntries(rateLimitMap, nowMs) EXCEPT
                   ![clientIp] = AfterCleaning(nowMs, CleanOldEntries(rateLimitMap, nowMs)[clientIp]).entry],
      next |-> AfterCleaning(nowMs, CleanOldEntries(rateLimitMap, nowMs)[clientIp]).next ]

\* what a request got: 429 from the middleware, or the form handler
Answer(ip, nowMs, result) ==
    [ip |-> ip, at |-> nowMs, status |-> IF result.next THEN 200 ELSE 429, handled |-> result.next]

InitLimiter ==
    /\ now = ClockStart
    /\ limiter = [map |-> [ip \in ClientIps |-> NoClientData], log |-> <<>>]
    /\ tz = Idle /\ normalized = Idle /\ data = Idle /\ resp = Idle /\ pg = Idle
    /\ loc = Idle /\ cal = Idle /\ page = Idle

\* time passes
ClockTick ==
    /\ now < ClockStart + MaxClockSteps * ClockStep
    /\ now' = now + ClockStep
    /\ UNCHANGED <<tz, normalized, data, resp, pg, loc, cal, page, limiter>>

\* POST /api/contact from clientIp: the middleware, then the handler when
\* next() is called; the log keeps what each request got
PostContact(clientIp) ==
    /\ Len(limiter.log) < MaxRequests
    /\ limiter' = [map |-> rateLimitMiddleware(limiter.map, clientIp, now).map,
                   log |-> Append(limiter.log,
                                  Answer(clientIp, now,
                                         rateLimitMiddleware(limiter.map, clientIp, now)))]
    /\ UNCHANGED <<tz, now, normalized, data, resp, pg, loc, cal, page>>

NextLimiter == ClockTick \/ \E clientIp \in ClientIps : PostContact(clientIp)

SpecLimiter == InitLimiter /\ [][NextLimiter]_vars

\* the requests of an IP among the first k of the log, in order
RequestsOf(log, ip, k) == SelectSeq(SubSeq(log, 1, k), LAMBDA r : r.ip = ip)

\* the instant that opened the window the last request of a history falls
\* in: the first request opens a window, and so does the first request made
\* after the window before it has expired; rejected requests open none
RECURSIVE WindowStart(_)
WindowStart(history) ==
    IF Len(history) = 1 THEN history[1].at
    ELSE IF history[Len(history)].at - WindowStart(SubSeq(history, 1, Len(history) - 1))
              > RATE_LIMIT_WINDOW
    THEN history[Len(history)].at
    ELSE WindowStart(SubSeq(history, 1, Len(history) - 1))

\* the requests of a history admitted in the window opened at start
AdmittedIn(history, start) ==
    Cardinality({j \in DOMAIN history :
                    history[j].handled /\ WindowStart(SubSeq(history, 1, j)) = start})

\* the k-th request of the log was preceded, in its window and from its IP,
\* by fewer than 3 admitted requests
HasAllowance(log, k) ==
    AdmittedIn(RequestsOf(log, log[k].ip, k - 1),
               WindowStart(RequestsOf(log, log[k].ip, k))) < MAX_REQUESTS_PER_WINDOW

\* C26: a request reaches the form handler exactly when fewer than 3 requests
\* of its IP were admitted before it in the window its IP's first request
\* opened, and is answered 429 otherwise: rejected requests open no window and
\* are not counted, and only the requests of the same IP are.
C26_ThreePerWindow ==
    \A k \in DOMAIN limiter.log :
        /\ limiter.log[k].handled <=> HasAllowance(limiter.log, k)
        /\ limiter.log[k].status = 429 <=> ~limiter.log[k].handled

\* an IP is rejected at the very end of its window, three of its requests
\* having been admitted, and the request after that one is admitted
C26_Witness ==
    /\ Len(limiter.log) = MaxRequests
    /\ \A k \in 1..4 : limiter.log[k].ip = "10.0.0.1"
    /\ limiter.log[4].status = 429
    /\ limiter.log[4].at = limiter.log[1].at + RATE_LIMIT_WINDOW
    /\ limiter.log[5].handled

(***************************************************************************)
(* GET /api/events/locations (routes/events.js): the branch lookup served  *)
(* to the page, read from the open-data package on every request.  Uses    *)
(* data for the state of the open-data source and resp for the answer.     *)
(***************************************************************************)

\* how the package_show request ends: a package with a datastore resource, a
\* package without one, a JSON answer without "result", a response stream
\* error, a body that is not JSON, a connection error on the request
PackageStates ==
    {"ok", "no datastore", "no result", "response error", "not json", "connection error"}

\* how the datastore_search request ends
StoreStates == {"ok", "no result", "response error", "not json", "connection error"}

LocationSources ==
    {[pkg |-> "ok", store |-> "ok", records |-> ls] : ls \in LocationLists}
    \cup {[pkg |-> "ok", store |-> s, records |-> <<>>] : s \in StoreStates \ {"ok"}}
    \cup {[pkg |-> p, store |-> "ok", records |-> <<>>] : p \in PackageStates \ {"ok"}}

\* whether the word w stands at position j of s and ends s, in any case
WordEndsAt(s, j, w) == j + Len(w) - 1 = Len(s) /\ StartsWithCI(s, j, w)

\* whether /\s+(Library|Branch)$/i matches at position i
SpacesLibraryOrBranchEnd(s, i) ==
    /\ IsSpace(Char(s, i))
    /\ (WordEndsAt(s, SkipSpaces(s, i), "library") \/ WordEndsAt(s, SkipSpaces(s, i), "branch"))

\* whether /\s+Library$/i matches at position i
SpacesLibraryEnd(s, i) == IsSpace(Char(s, i)) /\ WordEndsAt(s, SkipSpaces(s, i), "library")

\* whether /\s+(Public\s+)?Library$/i matches at position i
SpacesPublicLibraryEnd(s, i) ==
    \/ SpacesLibraryEnd(s, i)
    \/ /\ IsSpace(Char(s, i))
       /\ StartsWithCI(s, SkipSpaces(s, i), "public")
       /\ SkipSpaces(s, i) + 6 <= Len(s)
       /\ SpacesLibraryEnd(s, SkipSpaces(s, i) + 6)

\* whether /\s+Branch$/i matches at position i
SpacesBranchEnd(s, i) == IsSpace(Char(s, i)) /\ WordEndsAt(s, SkipSpaces(s, i), "branch")

\* s.replace(re, '') of a pattern anchored at the end of s, given the positions
\* where the pattern matches: s up to the leftmost of them
CutAtLeftmost(s, positions) ==
    IF positions = {} THEN s
    ELSE SubSeq(s, 1, (CHOOSE i \in positions : \A j \in positions : i <= j) - 1)

\* the variations of a branch name (366-372)
Variations(branchName) ==
    << branchName,
       ToLowerCase(branchName),
       Trim(CutAtLeftmost(branchName,
                {i \in 1..Len(branchName) : SpacesLibraryOrBranchEnd(branchName, i)})),
       Trim(CutAtLeftmost(branchName,
                {i \in 1..Len(branchName) : SpacesPublicLibraryEnd(branchName, i)})),
       Trim(CutAtLeftmost(branchName,
                {i \in 1..Len(branchName) : SpacesBranchEnd(branchName, i)})) >>

\* parseFloat(location[field]) of the first coordinate field that is neither
\* undefined nor null; undefined, which isNaN takes for NaN, without one
CoordinateOf(value) == IF value = Null THEN Null ELSE ParseFloat(value)

\* the first name field that is truthy and not blank, trimmed
BranchNameOf(location) ==
    IF Truthy(location.BranchName) /\ Trim(location.BranchName) # ""
    THEN Trim(location.BranchName) ELSE Null

\* branchName && !isNaN(lat) && !isNaN(lng) && lat !== 0 && lng !== 0
ValidLocation(location) ==
    /\ BranchNameOf(location) # Null
    /\ NumberTruthy(CoordinateOf(location.Lat))
    /\ NumberTruthy(CoordinateOf(location.Long))

\* locationInfo of a record (374-379)
LocationInfo(location) ==
    [ lat |-> CoordinateOf(location.Lat), lng |-> CoordinateOf(location.Long),
      address |-> IF Truthy(location.Address) THEN location.Address ELSE "",
      phone |-> IF Truthy(location.Telephone) THEN location.Telephone ELSE "" ]

\* variations.forEach from the variation i on (381-386)
RECURSIVE SetVariations(_, _, _, _)
SetVariations(lookup, variations, i, locationInfo) ==
    IF i > Len(variations) THEN lookup
    ELSE SetVariations(
             IF Len(variations[i]) > 1
             THEN Put(Put(lookup, variations[i], locationInfo),
                      ToLowerCase(variations[i]), locationInfo)
             ELSE lookup,
             variations, i + 1, locationInfo)

\* records.forEach from the record i on (327-394)
RECURSIVE ProcessRecords(_, _, _)
ProcessRecords(lookup, records, i) ==
    IF i > Len(records) THEN lookup
    ELSE ProcessRecords(
             IF ValidLocation(records[i])
             THEN SetVariations(lookup, Variations(BranchNameOf(records[i])), 1,
                                LocationInfo(records[i]))
             ELSE lookup,
             records, i + 1)

\* validLocations
ValidLocations(records) == Cardinality({i \in DOMAIN records : ValidLocation(records[i])})

\* no request made, or its answer read
NoLocationsAnswer ==
    [answered |-> FALSE, ended |-> "none", success |-> FALSE, fallback |-> FALSE,
     locations |-> <<>>, total |-> 0, source |-> Null]

\* res.json of the try block (399-405)
LocationsAnswer(records) ==
    [answered |-> TRUE, ended |-> "sent", success |-> TRUE, fallback |-> FALSE,
     locations |-> ProcessRecords(<<>>, records, 1), total |-> ValidLocations(records),
     source |-> "toronto-ckan-api"]

\* the catch block (411-444): it reads locationLookup (432), a const of the if
\* block of the try that is not in scope here, so the ReferenceError leaves the
\* async handler before res.json (436) and the request gets no answer
LocationsCatch == [NoLocationsAnswer EXCEPT !.ended = "handler rejected"]

\* an exception thrown inside an event callback, or an 'error' event of the
\* request, which has no listener: uncaughtException, process.exit(1)
LocationsCrash == [NoLocationsAnswer EXCEPT !.ended = "process exit"]

\* the promise of one https.get: settles, or throws outside the handler
Thrown(state) == state \in {"not json", "connection error"}

\* the handler of GET /locations
GetLocationsAnswer(source) ==
    IF Thrown(source.pkg) THEN LocationsCrash
    ELSE IF source.pkg # "ok" THEN LocationsCatch
    ELSE IF Thrown(source.store) \/ source.store = "no result" THEN LocationsCrash
    ELSE IF source.store # "ok" THEN LocationsCatch
    ELSE LocationsAnswer(source.records)

InitLocations ==
    /\ data \in LocationSources
    /\ resp = NoLocationsAnswer
    /\ tz = Idle /\ now = Idle /\ normalized = Idle /\ pg = Idle /\ loc = Idle
    /\ cal = Idle /\ page = Idle /\ limiter = Idle

\* router.get('/locations', ...)
GetLocations ==
    /\ resp' = GetLocationsAnswer(data)
    /\ UNCHANGED <<tz, now, normalized, data, pg, loc, cal, page, limiter>>

\* the open-data source changes between two requests
SourceChanges ==
    /\ data' \in LocationSources \ {data}
    /\ resp' = NoLocationsAnswer
    /\ UNCHANGED <<tz, now, normalized, pg, loc, cal, page, limiter>>

NextLocations == GetLocations \/ SourceChanges

SpecLocations == InitLocations /\ [][NextLocations]_vars

\* the request has been handled while the open-data source was unavailable
SourceUnavailable == data.pkg # "ok" \/ data.store # "ok"
Handled == resp # NoLocationsAnswer

\* C22: whenever the open-data source is unavailable (the package lookup fails,
\* the package has no datastore resource, the datastore fetch fails), the
\* request ends with an answer that has success true and fallback true
C22_FallbackAlwaysAnswers ==
    (Handled /\ SourceUnavailable) =>
        (resp.answered /\ resp.success /\ resp.fallback)

\* with the source available the request is answered from its records
C22_AvailableIsAnswered ==
    (Handled /\ ~SourceUnavailable) =>
        (resp.answered /\ resp.success /\ ~resp.fallback /\ resp.total <= Len(data.records))

(***************************************************************************)
(* The page (public/js/app.js): filterEvents with the cache of its results *)
(* and calculateDistance with the cache of distances.  A Map is the        *)
(* sequence of its entries [key, data] in insertion order.  Coordinates    *)
(* are whole numbers of 1/10000 of a degree, distances whole metres.       *)
(***************************************************************************)

\* the sizes above which the caches drop their first key
FilteredEventsCacheCap == 50
DistanceCacheCap == 1000

\* metres of one degree of latitude on a sphere of radius 6371 km
MetresPerDegree == 111195

\* the coordinates whose double lies below the tie of toFixed(3): 43.7615 and
\* 43.7735 of the fallback table
BelowTie == {437615, 437735}

\* |value|.toFixed(3) in 1/1000 of a degree
RoundedThousandths(n) ==
    IF n % 10 > 5 \/ (n % 10 = 5 /\ n \notin BelowTie) THEN n \div 10 + 1 ELSE n \div 10

\* String(n).padStart(3, '0')
Pad3(n) == IF n < 10 THEN "00" \o NatToStr(n) ELSE IF n < 100 THEN "0" \o NatToStr(n) ELSE NatToStr(n)

\* the text of a number of thousandths
ThousandthsText(m) == NatToStr(m \div 1000) \o "." \o Pad3(m % 1000)

\* value.toFixed(3)
ToFixed3(value) ==
    IF value < 0 THEN "-" \o ThousandthsText(RoundedThousandths(0 - value))
    ELSE ThousandthsText(RoundedThousandths(value))

\* cacheKey of calculateDistance (230)
CacheKey(lat1, lng1, lat2, lng2) ==
    ToFixed3(lat1) \o "," \o ToFixed3(lng1) \o "," \o ToFixed3(lat2) \o "," \o ToFixed3(lng2)

\* the haversine distance (236-243) of two points of one meridian, which is
\* the arc of their latitudes; every pair of points measured here lies on one
Haversine(lat1, lng1, lat2, lng2) == (AbsDiff(lat1, lat2) * MetresPerDegree) \div 10000

\* a Map that would lose the key just set instead
DropLastAbove(cache, cap) ==
    IF Len(cache) > cap THEN SubSeq(cache, 1, Len(cache) - 1) ELSE cache

\* a Map whose size went above the cap loses its first key (249-252, 429-432)
DropFirstAbove(cache, cap) == IF Len(cache) > cap THEN Tail(cache) ELSE cache

\* calculateDistance(lat1, lng1, lat2, lng2) with its cache key: the distance
\* and the cache after the call
DistanceOfKey(distanceCache, cacheKey, distance) ==
    IF HasKey(distanceCache, cacheKey)
    THEN [distance |-> Get(distanceCache, cacheKey), cache |-> distanceCache]
    ELSE [distance |-> distance,
          cache |-> DropFirstAbove(Put(distanceCache, cacheKey, distance), DistanceCacheCap)]

calculateDistance(distanceCache, lat1, lng1, lat2, lng2) ==
    DistanceOfKey(distanceCache, CacheKey(lat1, lng1, lat2, lng2),
                  Haversine(lat1, lng1, lat2, lng2))

\* no user location: null, or no item of localStorage
NoPosition == [none |-> TRUE]

\* value || ''
OrEmpty(value) == IF Truthy(value) THEN value ELSE ""

\* searchableText of an event (378)
SearchableText(event) ==
    ToLowerCase(OrEmpty(event.title) \o " " \o OrEmpty(event.description) \o " "
                \o OrEmpty(event.library) \o " " \o OrEmpty(event.category))

\* array.includes(value)
ArrayIncludes(array, value) == \E i \in DOMAIN array : array[i] = value

\* event.startDate.split('T')[0] of a date held as a string
DatePart(startDate) ==
    IF Includes(startDate, "T") THEN SubSeq(startDate, 1, IndexOf(startDate, "T") - 1)
    ELSE startDate

\* the tests of the filter before the distance (376-391); search is lowercase
PassesFilters(event, search, inputs) ==
    /\ search # "" => Includes(SearchableText(event), search)
    /\ inputs.libraries # <<>> => ArrayIncludes(inputs.libraries, event.library)
    /\ inputs.categories # <<>> => ArrayIncludes(inputs.categories, event.category)
    /\ inputs.ageGroups # <<>> => ArrayIncludes(inputs.ageGroups, event.ageGroup)
    /\ inputs.selectedDate # "" =>
           (Truthy(event.startDate) /\ DatePart(event.startDate) = inputs.selectedDate)

\* whether the distance test reaches calculateDistance (394-397)
Measured(event, userLocation, libraryCoordinates) ==
    /\ userLocation # NoPosition
    /\ Truthy(event.library)
    /\ HasKey(libraryCoordinates, event.library)

\* parseFloat(distance) kilometres, in metres
DistanceLimit(distance) == ParseInt(distance) * 1000

\* sourceEvents.filter(...) from the event i on (374-411): the events kept and
\* the distance cache after the calls
RECURSIVE FilterFrom(_, _, _, _, _, _, _)
Kept(events, i, inputs, userLocation, libraryCoordinates, kept, measured) ==
    FilterFrom(events, i + 1, inputs, userLocation, libraryCoordinates,
               IF measured.distance > DistanceLimit(inputs.distance)
               THEN kept ELSE Append(kept, events[i]),
               measured.cache)

FilterFrom(events, i, inputs, userLocation, libraryCoordinates, kept, distanceCache) ==
    IF i > Len(events) THEN [filtered |-> kept, cache |-> distanceCache]
    ELSE IF ~PassesFilters(events[i], ToLowerCase(inputs.search), inputs)
    THEN FilterFrom(events, i + 1, inputs, userLocation, libraryCoordinates, kept,
                    distanceCache)
    ELSE IF inputs.distance = ""
    THEN FilterFrom(events, i + 1, inputs, userLocation, libraryCoordinates,
                    Append(kept, events[i]), distanceCache)
    ELSE IF ~Measured(events[i], userLocation, libraryCoordinates)
    THEN FilterFrom(events, i + 1, inputs, userLocation, libraryCoordinates, kept,
                    distanceCache)
    ELSE Kept(events, i, inputs, userLocation, libraryCoordinates, kept,
              calculateDistance(distanceCache, userLocation.lat, userLocation.lng,
                                Get(libraryCoordinates, events[i].library).lat,
                                Get(libraryCoordinates, events[i].library).lng))

\* filterState (340); at most one box of a group is checked in the inputs
\* drawn here, so sort() leaves every array as it is
FilterStateOf(inputs, view) ==
    ToLowerCase(inputs.search) \o "|" \o Join(inputs.libraries, ",") \o "|"
    \o Join(inputs.categories, ",") \o "|" \o Join(inputs.ageGroups, ",") \o "|"
    \o inputs.selectedDate \o "|" \o inputs.distance \o "|"
    \o (IF view = "new" THEN "new" ELSE "all")

\* the user location read from localStorage when the distance is set and none
\* is held (355-364)
WithStoredLocation(p) ==
    IF p.inputs.distance # "" /\ p.userLocationCache = NoPosition /\ p.stored # NoPosition
    THEN [p EXCEPT !.userLocationCache = p.stored] ELSE p

\* the end of filterEvents (413-432) with the result of the filter
Filtered(p, filterState, result) ==
    IF p.view = "new"
    THEN [p EXCEPT !.displayed = [events |-> result.filtered, days |-> JsParseInt(p.days)],
                   !.distanceCache = result.cache, !.served = "filter"]
    ELSE [p EXCEPT !.filteredEvents = result.filtered,
                   !.filteredEventsCache =
                       DropFirstAbove(Put(p.filteredEventsCache, filterState, result.filtered),
                                      FilteredEventsCacheCap),
                   !.lastFilterState = filterState,
                   !.distanceCache = result.cache, !.served = "filter"]

\* filterEvents after the cache test, the stored location read
Refilter(p, filterState) ==
    Filtered(p, filterState,
             FilterFrom(IF p.view = "new" THEN p.newProgramsEvents ELSE p.allEvents, 1,
                        p.inputs, p.userLocationCache, p.libraryCoordinates, <<>>,
                        p.distanceCache))

\* filterEvents with its filterState (343-432)
FilterWithState(p, filterState) ==
    IF /\ p.view # "new"
       /\ HasKey(p.filteredEventsCache, filterState)
       /\ filterState = p.lastFilterState
    THEN [p EXCEPT !.filteredEvents = Get(p.filteredEventsCache, filterState),
                   !.served = "cache"]
    ELSE Refilter(WithStoredLocation(p), filterState)

\* filterEvents()
filterEvents(p) == FilterWithState(p, FilterStateOf(p.inputs, p.view))

\* the controls of the filter, all empty
NoInputs ==
    [search |-> "", libraries |-> <<>>, categories |-> <<>>, ageGroups |-> <<>>,
     selectedDate |-> "", distance |-> ""]

\* the page after DOMContentLoaded: both loads under way, no filter applied
NoPage ==
    [ inputs |-> NoInputs, view |-> "all", days |-> "28",
      allEvents |-> <<>>, newProgramsEvents |-> <<>>, filteredEvents |-> <<>>,
      displayed |-> [events |-> <<>>, days |-> 0],
      filteredEventsCache |-> <<>>, lastFilterState |-> "",
      stored |-> NoPosition, userLocationCache |-> NoPosition, libraryCoordinates |-> <<>>,
      distanceCache |-> <<>>, served |-> "none",
      loadingEvents |-> TRUE, loadingCoordinates |-> TRUE, locating |-> FALSE,
      pending |-> <<>>, newProgramsError |-> FALSE, handled |-> 0 ]

PageEventBase ==
    [ title |-> "Story Time", description |-> "Songs and rhymes for children",
      library |-> "North York Central Library", category |-> "Early Literacy",
      ageGroup |-> "Children", startDate |-> "2024-03-10T15:00:00.000Z" ]

ChessClub ==
    [PageEventBase EXCEPT !.title = "Chess Club", !.description = Null,
                          !.library = "Weston", !.category = "Games",
                          !.startDate = "2024-03-11"]

\* the lists GET /api/events answers with
EventLists == {<<PageEventBase>>, <<PageEventBase, ChessClub>>}

Meridian == 0 - 794111

\* the lookups loadLibraryCoordinates leaves: the answer of /locations, and
\* the table used when the request fails or answers success false (108-120)
LoadedCoordinates ==
    << [key |-> "North York Central Library", data |-> [lat |-> 437615, lng |-> Meridian]],
       [key |-> "Weston", data |-> [lat |-> 437001, lng |-> Meridian]] >>

FallbackCoordinates ==
    << [key |-> "Toronto Reference Library", data |-> [lat |-> 436532, lng |-> 0 - 793832]],
       [key |-> "North York Central Library", data |-> [lat |-> 437615, lng |-> Meridian]],
       [key |-> "Scarborough Civic Centre Branch",
        data |-> [lat |-> 437735, lng |-> 0 - 792584]] >>

CoordinateTables == {LoadedCoordinates, FallbackCoordinates}

\* the positions the browser reports: near North York Central, near Weston
Positions == {[lat |-> 437600, lng |-> Meridian], [lat |-> 437010, lng |-> Meridian]}

SearchTexts == {"", "Story"}
DistanceValues == {"", "5"}

InitFilter ==
    /\ page = NoPage
    /\ tz = Idle /\ now = Idle /\ normalized = Idle /\ data = Idle /\ resp = Idle
    /\ pg = Idle /\ loc = Idle /\ cal = Idle /\ limiter = Idle

\* the handlers and callbacks run on one page
MaxPageSteps == 6

\* one more handler has run
Counted(p) == [p EXCEPT !.handled = p.handled + 1]

\* loadEvents resumes with data.success (455-456)
LoadEventsCompletes(events) ==
    /\ page.handled < MaxPageSteps
    /\ page.loadingEvents
    /\ page' = Counted([page EXCEPT !.allEvents = events, !.filteredEvents = events,
                                     !.loadingEvents = FALSE, !.served = "load"])
    /\ UNCHANGED <<tz, now, normalized, data, resp, pg, loc, cal, limiter>>

\* loadLibraryCoordinates resumes (103-120)
LoadCoordinatesCompletes(table) ==
    /\ page.handled < MaxPageSteps
    /\ page.loadingCoordinates
    /\ page' = Counted([page EXCEPT !.libraryCoordinates = table, !.loadingCoordinates = FALSE,
                                     !.served = "none"])
    /\ UNCHANGED <<tz, now, normalized, data, resp, pg, loc, cal, limiter>>

\* the input listener of #searchInput, after its debounce (1867)
SearchInput(text) ==
    /\ page.handled < MaxPageSteps
    /\ text # page.inputs.search
    /\ page' = Counted(filterEvents([page EXCEPT !.inputs.search = text]))
    /\ UNCHANGED <<tz, now, normalized, data, resp, pg, loc, cal, limiter>>

\* clearFilters() (2121-2133)
ClearFilters ==
    /\ page.handled < MaxPageSteps
    /\ page' = Counted(filterEvents([page EXCEPT !.inputs = NoInputs]))
    /\ UNCHANGED <<tz, now, normalized, data, resp, pg, loc, cal, limiter>>

\* handleDistanceFilterChange(distanceValue) (2089-2118), the stored location
\* being less than 30 minutes old and the permission not denied
handleDistanceFilterChange(p) ==
    IF p.inputs.distance = "" THEN filterEvents(p)
    ELSE IF p.stored # NoPosition THEN filterEvents([p EXCEPT !.userLocationCache = p.stored])
    ELSE [p EXCEPT !.locating = TRUE]

\* a change of #distanceFilter: its own listener (1864), then the delegated
\* one (2033-2034)
DistanceChange(value) ==
    /\ page.handled < MaxPageSteps
    /\ value # page.inputs.distance
    /\ page' = Counted(handleDistanceFilterChange(filterEvents([page EXCEPT !.inputs.distance = value])))
    /\ UNCHANGED <<tz, now, normalized, data, resp, pg, loc, cal, limiter>>

\* findCurrentLocation (125-180) gets a position: it is stored
FindCurrentLocation(position) ==
    /\ page.handled < MaxPageSteps
    /\ page' = Counted([page EXCEPT !.stored = position, !.served = "none"])
    /\ UNCHANGED <<tz, now, normalized, data, resp, pg, loc, cal, limiter>>

\* the success callback of getCurrentLocationForFilter (1966-1999)
PositionForFilter(position) ==
    /\ page.handled < MaxPageSteps
    /\ page.locating
    /\ page' = Counted(filterEvents([page EXCEPT !.stored = position,
                                                  !.userLocationCache = position,
                                                  !.locating = FALSE]))
    /\ UNCHANGED <<tz, now, normalized, data, resp, pg, loc, cal, limiter>>

\* its error callback (2000-2015)
PositionFails ==
    /\ page.handled < MaxPageSteps
    /\ page.locating
    /\ page' = Counted(filterEvents([page EXCEPT !.inputs.distance = "", !.locating = FALSE]))
    /\ UNCHANGED <<tz, now, normalized, data, resp, pg, loc, cal, limiter>>

NextFilter ==
    \/ \E events \in EventLists : LoadEventsCompletes(events)
    \/ \E table \in CoordinateTables : LoadCoordinatesCompletes(table)
    \/ \E text \in SearchTexts : SearchInput(text)
    \/ ClearFilters
    \/ \E value \in DistanceValues : DistanceChange(value)
    \/ \E position \in Positions : FindCurrentLocation(position)
    \/ \E position \in Positions : PositionForFilter(position)
    \/ PositionFails

SpecFilter == InitFilter /\ [][NextFilter]_vars

\* the list a filter of the page as it is would give: the filter of the current
\* events by the current inputs, user location and coordinates
FreshlyFiltered(p) ==
    FilterFrom(p.allEvents, 1, p.inputs, p.userLocationCache, p.libraryCoordinates, <<>>,
               p.distanceCache).filtered

\* C28: whenever filterEvents serves filteredEvents from the cache of results,
\* the list served is what filtering the current allEvents by the current
\* inputs, user location and library coordinates gives
C28_CacheServesCurrent ==
    page.served = "cache" => page.filteredEvents = FreshlyFiltered(WithStoredLocation(page))

\* what filterEvents computes itself is the current filter
C28_FilterIsCurrent ==
    page.served = "filter" => page.filteredEvents = FreshlyFiltered(page)

(***************************************************************************)
(* The caches at their caps.  The page starts as a long session leaves it: *)
(* the user has walked through 500 positions with the distance filter set, *)
(* each measured against both libraries, and has then typed the first 47   *)
(* characters of a title one at a time.                                    *)
(***************************************************************************)

PositionsWalked == 500
CharactersTyped == 47

\* the i-th position of the walk: one thousandth of a degree north each time
PositionAt(i) == [lat |-> 432600 + 10 * i, lng |-> Meridian]

\* the text typed into #searchInput
TypedText == SearchableText(PageEventBase)
Prefix(n) == SubSeq(TypedText, 1, n)

SessionEvents == <<PageEventBase, ChessClub>>

\* the inputs with the distance set and the first n characters typed
TypedInputs(n) == [NoInputs EXCEPT !.search = Prefix(n), !.distance = "5"]

\* the entry calculateDistance wrote for a position and a library
DistanceEntry(position, coordinates) ==
    [key |-> CacheKey(position.lat, position.lng, coordinates.lat, coordinates.lng),
     data |-> Haversine(position.lat, position.lng, coordinates.lat, coordinates.lng)]

\* the entry filterEvents wrote for the inputs at the last position
FilterEntry(inputs) ==
    [key |-> FilterStateOf(inputs, "all"),
     data |-> FilterFrom(SessionEvents, 1, inputs, PositionAt(PositionsWalked),
                         LoadedCoordinates, <<>>, <<>>).filtered]

\* the page the session leaves: 1000 distances, 49 filter results
SessionPage ==
    [NoPage EXCEPT
        !.inputs = TypedInputs(CharactersTyped),
        !.allEvents = SessionEvents,
        !.libraryCoordinates = LoadedCoordinates,
        !.loadingEvents = FALSE, !.loadingCoordinates = FALSE,
        !.stored = PositionAt(PositionsWalked),
        !.userLocationCache = PositionAt(PositionsWalked),
        !.distanceCache =
            [k \in 1..(2 * PositionsWalked) |->
                DistanceEntry(PositionAt((k + 1) \div 2),
                              LoadedCoordinates[2 - (k % 2)].data)],
        !.filteredEventsCache =
            <<FilterEntry(TypedInputs(0)), FilterEntry(NoInputs)>>
            \o [n \in 1..CharactersTyped |-> FilterEntry(TypedInputs(n))],
        !.lastFilterState = FilterStateOf(TypedInputs(CharactersTyped), "all"),
        !.filteredEvents = FilterEntry(TypedInputs(CharactersTyped)).data,
        !.served = "filter"]

InitCaches ==
    /\ page = SessionPage
    /\ tz = Idle /\ now = Idle /\ normalized = Idle /\ data = Idle /\ resp = Idle
    /\ pg = Idle /\ loc = Idle /\ cal = Idle /\ limiter = Idle

\* one more character typed, or the last one deleted
Keystrokes(search) ==
    {Prefix(n) : n \in {Len(search) + 1, Len(search) - 1} \cap 0..Len(TypedText)}

\* the next position of the walk
NextPosition(position) == [position EXCEPT !.lat = position.lat + 10]

NextCaches ==
    \/ \E text \in Keystrokes(page.inputs.search) : SearchInput(text)
    \/ \E value \in DistanceValues : DistanceChange(value)
    \/ FindCurrentLocation(NextPosition(page.stored))
    \/ ClearFilters

SpecCaches == InitCaches /\ [][NextCaches]_vars

\* the keys of a Map in insertion order
KeysIn(cache) == [i \in DOMAIN cache |-> cache[i].key]

\* later holds earlier without its first dropped entries, then the keys set
\* since, all of them there
AfterDropping(earlier, later, dropped) ==
    /\ Len(later) >= Len(earlier) - dropped
    /\ SubSeq(KeysIn(later), 1, Len(earlier) - dropped)
           = SubSeq(KeysIn(earlier), dropped + 1, Len(earlier))

\* the entries a handler dropped from a cache were its oldest, one for each
\* insertion that took it above the cap
OldestDropped(earlier, later, cap) ==
    \E dropped \in 0..Len(earlier) :
        /\ AfterDropping(earlier, later, dropped)
        /\ dropped > 0 => Len(later) = cap
        /\ \A i \in (Len(earlier) - dropped + 1)..Len(later) :
               \A j \in 1..(i - 1) : later[i].key # later[j].key

\* whether filterEvents measures the event of the page as it is
MeasuredNow(p, event) ==
    /\ p.inputs.distance # ""
    /\ PassesFilters(event, ToLowerCase(p.inputs.search), p.inputs)
    /\ Measured(event, p.userLocationCache, p.libraryCoordinates)

\* the key calculateDistance sets for the event
KeyMeasured(p, event) ==
    CacheKey(p.userLocationCache.lat, p.userLocationCache.lng,
             Get(p.libraryCoordinates, event.library).lat,
             Get(p.libraryCoordinates, event.library).lng)

\* the entries a handler that ended in a filter has just written are held:
\* the filter result, and the distance of every event it measured
WrittenEntriesHeld ==
    page.served = "filter" =>
        /\ HasKey(page.filteredEventsCache, page.lastFilterState)
        /\ \A i \in DOMAIN page.allEvents :
               MeasuredNow(page, page.allEvents[i]) =>
                   HasKey(page.distanceCache, KeyMeasured(page, page.allEvents[i]))

CachesWithinCaps ==
    /\ Len(page.filteredEventsCache) <= FilteredEventsCacheCap
    /\ Len(page.distanceCache) <= DistanceCacheCap

\* C21: the cache of filter results holds at most 50 entries and the cache of
\* distances at most 1000 after every handler; an insertion that takes a cache
\* above its cap drops one entry, the oldest inserted, and never the entry
\* just written
C21_CapsAndOldestDropped ==
    /\ [](CachesWithinCaps /\ WrittenEntriesHeld)
    /\ [][/\ OldestDropped(page.filteredEventsCache, page'.filteredEventsCache,
                           FilteredEventsCacheCap)
          /\ OldestDropped(page.distanceCache, page'.distanceCache, DistanceCacheCap)]_vars

\* both caches have dropped their oldest entry and hold the entries just written
C21_Witness ==
    /\ Len(page.filteredEventsCache) = FilteredEventsCacheCap
    /\ page.filteredEventsCache[1].key = FilterStateOf(NoInputs, "all")
    /\ page.filteredEventsCache[FilteredEventsCacheCap].key = page.lastFilterState
    /\ Len(page.distanceCache) = DistanceCacheCap
    /\ page.distanceCache[1] = DistanceEntry(PositionAt(1), LoadedCoordinates[2].data)
    /\ page.distanceCache[DistanceCacheCap]
           = DistanceEntry(page.userLocationCache, LoadedCoordinates[1].data)
    /\ page.userLocationCache = PositionAt(PositionsWalked + 1)

(***************************************************************************)
(* The new-programs view: loadNewPrograms and the days selector.  pending  *)
(* holds the days of the requests of /new that have not been answered.     *)
(***************************************************************************)

\* the values chosen in #daysSelector
DaysValues == {"1", "7", "28"}

\* the events GET /new answers with: Story Time was modified 2 days ago, the
\* Chess Club 10 days ago
NewProgramsOf(days) ==
    IF days >= 10 THEN <<PageEventBase, ChessClub>>
    ELSE IF days >= 2 THEN <<PageEventBase>>
    ELSE <<>>

LibraryBoxes == {<<>>, <<"Weston">>}

\* loadNewPrograms(days) up to its fetch (772-783)
loadNewPrograms(p, days) ==
    [p EXCEPT !.displayed.events = <<>>, !.newProgramsError = FALSE,
              !.pending = Append(p.pending, days)]

\* a sequence without its element i
Without(seq, i) == SubSeq(seq, 1, i - 1) \o SubSeq(seq, i + 1, Len(seq))

InitNew ==
    /\ page = [NoPage EXCEPT !.allEvents = SessionEvents, !.filteredEvents = SessionEvents,
                             !.loadingEvents = FALSE, !.loadingCoordinates = FALSE,
                             !.libraryCoordinates = LoadedCoordinates]
    /\ tz = Idle /\ now = Idle /\ normalized = Idle /\ data = Idle /\ resp = Idle
    /\ pg = Idle /\ loc = Idle /\ cal = Idle /\ limiter = Idle

\* showNewProgramsView() (754-768)
ShowNewProgramsView ==
    /\ page.handled < MaxPageSteps
    /\ page.view # "new"
    /\ page' = Counted(IF page.newProgramsEvents = <<>>
                       THEN loadNewPrograms([page EXCEPT !.view = "new"], JsParseInt(page.days))
                       ELSE filterEvents([page EXCEPT !.view = "new"]))
    /\ UNCHANGED <<tz, now, normalized, data, resp, pg, loc, cal, limiter>>

\* showCalendarView() (709-714)
ShowCalendarView ==
    /\ page.handled < MaxPageSteps
    /\ page.view = "new"
    /\ page' = Counted([page EXCEPT !.view = "all"])
    /\ UNCHANGED <<tz, now, normalized, data, resp, pg, loc, cal, limiter>>

\* a change of #daysSelector: the delegated listener (2035-2040) and the
\* listener of the element (2077-2085) each call loadNewPrograms
DaysChange(value) ==
    /\ page.handled < MaxPageSteps
    /\ value # page.days
    /\ page' = Counted(loadNewPrograms(
                           loadNewPrograms([page EXCEPT !.days = value], JsParseInt(value)),
                           JsParseInt(value)))
    /\ UNCHANGED <<tz, now, normalized, data, resp, pg, loc, cal, limiter>>

\* a change of a library checkbox (2028-2030)
CheckboxChange(libraries) ==
    /\ page.handled < MaxPageSteps
    /\ libraries # page.inputs.libraries
    /\ page' = Counted(filterEvents([page EXCEPT !.inputs.libraries = libraries]))
    /\ UNCHANGED <<tz, now, normalized, data, resp, pg, loc, cal, limiter>>

\* loadNewPrograms resumes with data.success (785-805): the request i
NewProgramsArrive(i) ==
    /\ page.handled < MaxPageSteps
    /\ i \in DOMAIN page.pending
    /\ page' = Counted(filterEvents([page EXCEPT
                                        !.newProgramsEvents = NewProgramsOf(page.pending[i]),
                                        !.pending = Without(page.pending, i)]))
    /\ UNCHANGED <<tz, now, normalized, data, resp, pg, loc, cal, limiter>>

\* loadNewPrograms resumes in its catch (809-812): the request i failed
NewProgramsFail(i) ==
    /\ page.handled < MaxPageSteps
    /\ i \in DOMAIN page.pending
    /\ page' = Counted([page EXCEPT !.newProgramsError = TRUE,
                                    !.pending = Without(page.pending, i)])
    /\ UNCHANGED <<tz, now, normalized, data, resp, pg, loc, cal, limiter>>

NextNew ==
    \/ ShowNewProgramsView
    \/ ShowCalendarView
    \/ \E value \in DaysValues : DaysChange(value)
    \/ \E libraries \in LibraryBoxes : CheckboxChange(libraries)
    \/ \E i \in 1..(2 * MaxPageSteps) : NewProgramsArrive(i)
    \/ \E i \in 1..(2 * MaxPageSteps) : NewProgramsFail(i)

SpecNew == InitNew /\ [][NextNew]_vars

\* the list of the new-programs view for a response: its events that pass the
\* filters of the page
ShownFor(p, events) ==
    FilterFrom(events, 1, p.inputs, p.userLocationCache, p.libraryCoordinates, <<>>,
               p.distanceCache).filtered

\* every request has been answered, the last handler was the arrival of a
\* response, and no error is shown
AllAnswered ==
    /\ page.view = "new"
    /\ page.pending = <<>>
    /\ page.served = "filter"
    /\ ~page.newProgramsError

\* C29: once every outstanding request of /new has completed, newProgramsEvents
\* and the list displayed are the response for the days selected last; a late
\* response for an earlier selection never replaces the later one
C29_LatestSelectionShown ==
    AllAnswered =>
        /\ page.newProgramsEvents = NewProgramsOf(JsParseInt(page.days))
        /\ page.displayed.events = ShownFor(page, NewProgramsOf(JsParseInt(page.days)))

\* the list displayed is always the filter of newProgramsEvents, and it is
\* headed by the days selected when it was displayed
C29_ShownIsStored ==
    AllAnswered =>
        /\ page.displayed.events = ShownFor(page, page.newProgramsEvents)
        /\ page.displayed.days = JsParseInt(page.days)
====
